---- MODULE Spec2Model ----
(***************************************************************************)
(* SiftView content-analysis engine (browser implementations of the        *)
(* detect / segment / format / diff commands).                             *)
(*                                                                         *)
(* A JavaScript string is a sequence of one-character strings; a line      *)
(* array is a sequence of such strings.  Array indexes of the source are   *)
(* 0-based, sequences here are 1-based: l[i] of the source is l[i + 1].    *)
(***************************************************************************)
EXTENDS Integers, Sequences, FiniteSets, TLC

VARIABLES left, right, unified, structured, content, extension, segments, detected,
          fmtSegments, formatted,
          tabs, activeId, tabIdCounter, formatPreview,
          detectTimer, detectCalls, formatCalls, refreshCall, commands,
          recentlyClosed, dialog, ioCalls, reported, inFlightLimit, asks,
          loopName, loopSt

vars ==
    <<left, right, unified, structured, content, extension, segments, detected,
      fmtSegments, formatted,
      tabs, activeId, tabIdCounter, formatPreview,
      detectTimer, detectCalls, formatCalls, refreshCall, commands,
      recentlyClosed, dialog, ioCalls, reported, inFlightLimit, asks,
      loopName, loopSt>>

diffVars == <<left, right, unified, structured>>

segVars == <<content, extension, segments>>

detVars == <<detected>>

fmtVars == <<fmtSegments, formatted>>

loopVars == <<loopName, loopSt>>

shellVars ==
    <<tabs, activeId, tabIdCounter, formatPreview,
      detectTimer, detectCalls, formatCalls, refreshCall, commands,
      recentlyClosed, dialog, ioCalls, reported, inFlightLimit, asks>>

\* ------------------------------------------------------------------ bounds

\* longest diff input, in characters
MaxDiffLen == 4

\* longest segmenter input, in characters
MaxSegLen == 5

\* longest detector input, in characters
MaxDetLen == 4

\* longest formatter input, in characters
MaxFmtLen == 5

\* longest input of a loop that is run step by step, in characters
MaxLoopLen == 3

\* most tabs the shell opens
MaxTabs == 2

\* most invoke calls the shell has in flight at once
MaxInFlight == 1

\* most detection calls in flight at once where only detection runs
MaxDetections == 2

\* most commands the user gives in one session
MaxCommands == 5

\* most tabs open at once where the recently-closed list is filled
ManyTabs == 11

\* most tabs open at once where Close all is followed by restores
FewTabs == 4

\* most "Close pinned tab?" prompts awaited at once
MaxPrompts == 2

\* const MAX_RECENTLY_CLOSED = 10
MAX_RECENTLY_CLOSED == 10

\* ----------------------------------------------------------------- strings

NL == "\n"

\* String.prototype.split on a one-character separator, scanning from k
RECURSIVE SplitFrom(_, _, _, _, _)
SplitFrom(s, sep, k, cur, acc) ==
    IF k > Len(s) THEN Append(acc, cur)
    ELSE IF s[k] = sep THEN SplitFrom(s, sep, k + 1, <<>>, Append(acc, cur))
    ELSE SplitFrom(s, sep, k + 1, Append(cur, s[k]), acc)

Split(s, sep) == SplitFrom(s, sep, 1, <<>>, <<>>)

\* Array.prototype.join with a one-character separator
RECURSIVE Join(_, _)
Join(arr, sep) ==
    IF Len(arr) = 0 THEN <<>>
    ELSE IF Len(arr) = 1 THEN arr[1]
    ELSE arr[1] \o <<sep>> \o Join(Tail(arr), sep)

\* all strings over alphabet A of length at most n
RECURSIVE StringsUpTo(_, _)
StringsUpTo(A, n) ==
    IF n = 0 THEN {<<>>}
    ELSE LET shorter == StringsUpTo(A, n - 1)
         IN shorter \cup {Append(s, c) : s \in shorter, c \in A}

\* ------------------------------------------------------------- diff engine

LeftLabel == <<"c", "u", "r", "r", "e", "n", "t">>

RightLabel == <<"c", "l", "i", "p", "b", "o", "a", "r", "d">>

HeaderLeft == <<"-", "-", "-", " ">> \o LeftLabel

HeaderRight == <<"+", "+", "+", " ">> \o RightLabel

\* the loop body without its last branch: a left line that is not matched is
\* never emitted
DiffStepNoDelete(l, r, st) ==
    LET i == st.i
        j == st.j
    IN IF i < Len(l) /\ j < Len(r) /\ l[i + 1] = r[j + 1]
       THEN [i |-> i + 1, j |-> j + 1, lines |-> Append(st.lines, <<" ">> \o l[i + 1])]
       ELSE IF j < Len(r)
               /\ (i >= Len(l)
                   \/ (i < Len(l) /\ l[i + 1] # r[j + 1]
                       /\ (i + 1 >= Len(l) \/ l[i + 2] # r[j + 1])))
       THEN [i |-> i, j |-> j + 1, lines |-> Append(st.lines, <<"+">> \o r[j + 1])]
       ELSE st

\* one iteration of the while loop of webComputeDiff; st = [i, j, lines]
DiffStep(l, r, st) ==
    LET i == st.i
        j == st.j
    IN IF i < Len(l) /\ j < Len(r) /\ l[i + 1] = r[j + 1]
       THEN [i |-> i + 1, j |-> j + 1, lines |-> Append(st.lines, <<" ">> \o l[i + 1])]
       ELSE IF j < Len(r)
               /\ (i >= Len(l)
                   \/ (i < Len(l) /\ l[i + 1] # r[j + 1]
                       /\ (i + 1 >= Len(l) \/ l[i + 2] # r[j + 1])))
       THEN [i |-> i, j |-> j + 1, lines |-> Append(st.lines, <<"+">> \o r[j + 1])]
       ELSE IF i < Len(l)
       THEN [i |-> i + 1, j |-> j, lines |-> Append(st.lines, <<"-">> \o l[i + 1])]
       ELSE st

RECURSIVE DiffLoop(_, _, _)
DiffLoop(l, r, st) ==
    IF st.i < Len(l) \/ st.j < Len(r) THEN DiffLoop(l, r, DiffStep(l, r, st)) ELSE st

webComputeDiff(lft, rgt) ==
    LET l == Split(lft, NL)
        r == Split(rgt, NL)
        start == [i |-> 0, j |-> 0, lines |-> <<HeaderLeft, HeaderRight>>]
    IN Join(DiffLoop(l, r, start).lines, NL)

\* UnchangedRun stopping after one line: every equal line becomes its own block
UnchangedRunSingle(l, r, i, j) ==
    IF i < Len(l) /\ j < Len(r) /\ l[i + 1] = r[j + 1] THEN 1 ELSE 0

\* the inner loop collecting equal lines: the number of lines it takes from (i, j)
RECURSIVE UnchangedRun(_, _, _, _)
UnchangedRun(l, r, i, j) ==
    IF i < Len(l) /\ j < Len(r) /\ l[i + 1] = r[j + 1]
    THEN 1 + UnchangedRun(l, r, i + 1, j + 1)
    ELSE 0

\* OldRun stopping after one line
OldRunSingle(l, r, i, j) ==
    IF i < Len(l) /\ (j >= Len(r) \/ l[i + 1] # r[j + 1]) THEN 1 ELSE 0

\* the inner loop collecting oldLines: the number of left lines it takes from i
RECURSIVE OldRun(_, _, _, _)
OldRun(l, r, i, j) ==
    IF i < Len(l) /\ (j >= Len(r) \/ l[i + 1] # r[j + 1])
    THEN 1 + OldRun(l, r, i + 1, j)
    ELSE 0

\* the inner loop collecting newLines: the number of right lines it takes from j
RECURSIVE NewRun(_, _, _, _)
NewRun(l, r, i, j) ==
    IF j < Len(r) /\ (i >= Len(l) \/ l[i + 1] # r[j + 1])
    THEN 1 + NewRun(l, r, i, j + 1)
    ELSE 0

\* an unchanged block that counts itself as one line
UnchangedBlockCountOne(ls) == [type |-> "unchanged", count |-> 1, lines |-> ls]

UnchangedBlock(ls) == [type |-> "unchanged", count |-> Len(ls), lines |-> ls]

\* a changed block that leaves out the old lines
ChangedBlockNoOld(old, new) == [type |-> "changed", old_lines |-> <<>>, new_lines |-> new]

ChangedBlock(old, new) == [type |-> "changed", old_lines |-> old, new_lines |-> new]

\* one iteration of the outer while loop of webComputeDiffStructured; st = [i, j, blocks]
StructStep(l, r, st) ==
    LET i == st.i
        j == st.j
    IN IF i < Len(l) /\ j < Len(r) /\ l[i + 1] = r[j + 1]
       THEN LET n == UnchangedRun(l, r, i, j)
            IN [i |-> i + n, j |-> j + n,
                blocks |-> Append(st.blocks, UnchangedBlock(SubSeq(l, i + 1, i + n)))]
       ELSE LET no == OldRun(l, r, i, j)
                nn == NewRun(l, r, i + no, j)
                oldLines == SubSeq(l, i + 1, i + no)
                newLines == SubSeq(r, j + 1, j + nn)
            IN [i |-> i + no, j |-> j + nn,
                blocks |-> IF Len(oldLines) > 0 \/ Len(newLines) > 0
                           THEN Append(st.blocks, ChangedBlock(oldLines, newLines))
                           ELSE st.blocks]

RECURSIVE StructLoop(_, _, _)
StructLoop(l, r, st) ==
    IF st.i < Len(l) \/ st.j < Len(r) THEN StructLoop(l, r, StructStep(l, r, st)) ELSE st

webComputeDiffStructured(lft, rgt) ==
    LET l == Split(lft, NL)
        r == Split(rgt, NL)
        start == [i |-> 0, j |-> 0, blocks |-> <<>>]
    IN [left_label |-> LeftLabel, right_label |-> RightLabel,
        blocks |-> StructLoop(l, r, start).blocks]

\* ------------------------------------------------------- diff specification

DiffChars == {"a", "b", NL}

\* left = "a\nb\nc", right = "a\nx\nc"
ScenarioLeft == <<"a", NL, "b", NL, "c">>

ScenarioRight == <<"a", NL, "x", NL, "c">>

DiffInputs ==
    (StringsUpTo(DiffChars, MaxDiffLen) \X StringsUpTo(DiffChars, MaxDiffLen))
        \cup {<<ScenarioLeft, ScenarioRight>>}

\* a command that has not been invoked yet has no result
NotCalled == [called |-> FALSE, failed |-> FALSE, value |-> <<>>]

\* Promise.resolve(v)
Returned(v) == [called |-> TRUE, failed |-> FALSE, value |-> v]

\* the promise of a function that returned r.value (r.ok) or threw r.value
Settled(r) == [called |-> TRUE, failed |-> ~r.ok, value |-> r.value]

SegIdle ==
    /\ content = <<>>
    /\ extension = <<>>
    /\ segments = NotCalled

DetIdle == detected = NotCalled

FmtIdle ==
    /\ fmtSegments = <<>>
    /\ formatted = NotCalled

\* no loop is being run
LoopIdle ==
    /\ loopName = "none"
    /\ loopSt = <<>>

\* useState(null) of formatPreview
NoPreview == [open |-> FALSE, formatted |-> <<>>, tabId |-> 0]

\* no debounce timer is pending
NoTimer == [armed |-> FALSE, tabId |-> 0, content |-> <<>>, extension |-> <<>>]

\* no refresh of the formatted view is awaited
NoCall == [pending |-> FALSE, tabId |-> 0, content |-> <<>>, segments |-> <<>>]

\* no native dialog is open
NoDialog == [kind |-> "none", tabId |-> 0, tabs |-> <<>>, content |-> <<>>]

\* the shell is not mounted
ShellIdle ==
    /\ tabs = <<>>
    /\ activeId = 0
    /\ tabIdCounter = 0
    /\ formatPreview = NoPreview
    /\ detectTimer = NoTimer
    /\ detectCalls = {}
    /\ formatCalls = {}
    /\ refreshCall = NoCall
    /\ commands = 0
    /\ recentlyClosed = <<>>
    /\ dialog = NoDialog
    /\ ioCalls = {}
    /\ reported = 0
    /\ inFlightLimit = 0
    /\ asks = <<>>

InitDiff ==
    /\ \E p \in DiffInputs : left = p[1] /\ right = p[2]
    /\ unified = NotCalled
    /\ structured = NotCalled
    /\ SegIdle
    /\ DetIdle
    /\ FmtIdle
    /\ ShellIdle
    /\ LoopIdle

\* webInvoke("compute_diff", {left, right})
ComputeDiff ==
    /\ unified' = Returned(webComputeDiff(left, right))
    /\ UNCHANGED <<left, right, structured, segVars, detVars, fmtVars, shellVars, loopVars>>

\* webInvoke("compute_diff_structured", {left, right})
ComputeDiffStructured ==
    /\ structured' = Returned(webComputeDiffStructured(left, right))
    /\ UNCHANGED <<left, right, unified, segVars, detVars, fmtVars, shellVars, loopVars>>

NextDiff == ComputeDiff \/ ComputeDiffStructured

SpecDiff == InitDiff /\ [][NextDiff]_vars

\* ---------------------------------------------------------------- segmenter

IsSpace(c) == c \in {" ", "\t", "\r", NL}

\* String.prototype.trim
RECURSIVE TrimStart(_)
TrimStart(s) == IF Len(s) > 0 /\ IsSpace(s[1]) THEN TrimStart(Tail(s)) ELSE s

RECURSIVE TrimEnd(_)
TrimEnd(s) ==
    IF Len(s) > 0 /\ IsSpace(s[Len(s)]) THEN TrimEnd(SubSeq(s, 1, Len(s) - 1)) ELSE s

Trim(s) == TrimEnd(TrimStart(s))

\* String.prototype.startsWith / includes for a one-character argument
StartsWith(s, c) == Len(s) > 0 /\ s[1] = c

Includes(s, c) == \E k \in 1..Len(s) : s[k] = c

KindJson == <<"j", "s", "o", "n">>

KindCsv == <<"c", "s", "v">>

KindText == <<"t", "e", "x", "t">>

KindYaml == <<"y", "a", "m", "l">>

KindProperties == <<"p", "r", "o", "p", "e", "r", "t", "i", "e", "s">>

ExtYml == <<"y", "m", "l">>

ExtEnv == <<"e", "n", "v">>

\* the kind an extension stands for: yml is yaml, env is properties
ExtensionKind(ext) ==
    IF ext = ExtYml THEN KindYaml
    ELSE IF ext = ExtEnv \/ ext = KindProperties THEN KindProperties
    ELSE ext

Segment(s, e, k) == [start_line |-> s, end_line |-> e, kind |-> k]

\* the kind of one non-blank line
LineKind(line) ==
    IF StartsWith(Trim(line), "{") \/ StartsWith(Trim(line), "[") THEN KindJson
    ELSE IF Includes(line, ",") /\ Len(Split(line, ",")) >= 2 THEN KindCsv
    ELSE KindText

\* SegStep without the merge of a line into the segment that ends just before it
SegStepNoMerge(lines, st) ==
    LET i == st.i
        line == lines[i + 1]
        line1 == i + 1
    IN IF Trim(line) = <<>> THEN [i |-> i + 1, segments |-> st.segments]
       ELSE [i |-> i + 1,
             segments |-> Append(st.segments, Segment(line1, line1, LineKind(line)))]

\* SegStep numbering lines from 0: line1 is the array index
SegStepZeroBased(lines, st) ==
    LET i == st.i
        line == lines[i + 1]
        segs == st.segments
        line1 == i
        kind == LineKind(line)
        n == Len(segs)
    IN IF Trim(line) = <<>> THEN [i |-> i + 1, segments |-> segs]
       ELSE IF n > 0 /\ segs[n].kind = kind /\ segs[n].end_line + 1 = line1
       THEN [i |-> i + 1, segments |-> [segs EXCEPT ![n].end_line = line1]]
       ELSE [i |-> i + 1, segments |-> Append(segs, Segment(line1, line1, kind))]

\* SegStep merging a line into the last segment of its kind, wherever it ends
SegStepMergeApart(lines, st) ==
    LET i == st.i
        line == lines[i + 1]
        segs == st.segments
        line1 == i + 1
        kind == LineKind(line)
        n == Len(segs)
    IN IF Trim(line) = <<>> THEN [i |-> i + 1, segments |-> segs]
       ELSE IF n > 0 /\ segs[n].kind = kind
       THEN [i |-> i + 1, segments |-> [segs EXCEPT ![n].end_line = line1]]
       ELSE [i |-> i + 1, segments |-> Append(segs, Segment(line1, line1, kind))]

\* one iteration of the scan of webDetectSegments; st = [i, segments]
SegStep(lines, st) ==
    LET i == st.i
        line == lines[i + 1]
        segs == st.segments
        line1 == i + 1
        kind == LineKind(line)
        n == Len(segs)
    IN IF Trim(line) = <<>> THEN [i |-> i + 1, segments |-> segs]
       ELSE IF n > 0 /\ segs[n].kind = kind /\ segs[n].end_line + 1 = line1
       THEN [i |-> i + 1, segments |-> [segs EXCEPT ![n].end_line = line1]]
       ELSE [i |-> i + 1, segments |-> Append(segs, Segment(line1, line1, kind))]

RECURSIVE SegLoop(_, _)
SegLoop(lines, st) ==
    IF st.i < Len(lines) THEN SegLoop(lines, SegStep(lines, st)) ELSE st

webDetectSegments(cnt, ext) ==
    LET lines == Split(cnt, NL)
    IN IF Len(lines) = 0
       THEN <<Segment(1, 1, IF ext # <<>> THEN ExtensionKind(ext) ELSE KindText)>>
       ELSE LET segs == SegLoop(lines, [i |-> 0, segments |-> <<>>]).segments
            IN IF Len(segs) > 0 THEN segs
               ELSE <<Segment(1, IF Len(lines) # 0 THEN Len(lines) ELSE 1, KindText)>>

\* -------------------------------------------------- segmenter specification

SegChars == {"{", "[", ",", "x", " ", NL}

\* "{\n\"a\":1\n}\n\nx,y,z\n1,2,3\n"
ScenarioContent ==
    <<"{", NL, "\"", "a", "\"", ":", "1", NL, "}", NL, NL,
      "x", ",", "y", ",", "z", NL, "1", ",", "2", ",", "3", NL>>

SegInputs == StringsUpTo(SegChars, MaxSegLen) \cup {ScenarioContent}

\* webInvoke passes "" when no extension is given
Hints == {<<>>, KindJson, ExtYml}

DiffIdle ==
    /\ left = <<>>
    /\ right = <<>>
    /\ unified = NotCalled
    /\ structured = NotCalled

InitSeg ==
    /\ content \in SegInputs
    /\ extension \in Hints
    /\ segments = NotCalled
    /\ DiffIdle
    /\ DetIdle
    /\ FmtIdle
    /\ ShellIdle
    /\ LoopIdle

\* webInvoke("detect_segments", {content, extension})
DetectSegments ==
    /\ segments' = Returned(webDetectSegments(content, extension))
    /\ UNCHANGED <<content, extension, diffVars, detVars, fmtVars, shellVars, loopVars>>

NextSeg == DetectSegments

SpecSeg == InitSeg /\ [][NextSeg]_vars

\* ----------------------------------------------------------------- detector

Uppers ==
    <<"A", "B", "C", "D", "E", "F", "G", "H", "I", "J", "K", "L", "M",
      "N", "O", "P", "Q", "R", "S", "T", "U", "V", "W", "X", "Y", "Z">>

Lowers ==
    <<"a", "b", "c", "d", "e", "f", "g", "h", "i", "j", "k", "l", "m",
      "n", "o", "p", "q", "r", "s", "t", "u", "v", "w", "x", "y", "z">>

\* String.prototype.toLowerCase
ToLowerCase(s) ==
    [k \in 1..Len(s) |->
        IF \E u \in 1..Len(Uppers) : Uppers[u] = s[k]
        THEN Lowers[CHOOSE u \in 1..Len(Uppers) : Uppers[u] = s[k]]
        ELSE s[k]]

ExtXml == <<"x", "m", "l">>

ExtHtml == <<"h", "t", "m", "l">>

\* the extensions webDetectContent knows
KnownExtensions ==
    {KindJson, KindCsv, ExtXml, ExtHtml, KindYaml, ExtYml, ExtEnv, KindProperties}

\* confidences, in hundredths
ConfidenceHint == 95

ConfidenceJson == 85

ConfidenceCsv == 70

ConfidenceText == 50

Detection(k, c) == [kind |-> k, confidence |-> c]

\* the kind of a known extension: yml is yaml, env is properties
HintKind(ext) ==
    IF ext = ExtYml THEN KindYaml
    ELSE IF ext = ExtEnv \/ ext = KindProperties THEN KindProperties
    ELSE ext

\* the object-notation rule on the trimmed content
LooksJson(t) ==
    \/ StartsWith(t, "{") /\ Includes(t, "\"")
    \/ StartsWith(t, "[") /\ Includes(t, "\"")

\* the tabular rule on the trimmed content
LooksCsv(t) == Includes(t, ",") /\ Includes(t, NL) /\ Includes(Split(t, NL)[1], ",")

\* SniffContent trying the tabular rule before the object-notation rule
SniffContentCsvFirst(cnt) ==
    LET t == Trim(cnt)
    IN IF LooksCsv(t) THEN Detection(KindCsv, ConfidenceCsv)
       ELSE IF LooksJson(t) THEN Detection(KindJson, ConfidenceJson)
       ELSE Detection(KindText, ConfidenceText)

\* content sniffing, after the extension did not decide
SniffContent(cnt) ==
    LET t == Trim(cnt)
    IN IF LooksJson(t) THEN Detection(KindJson, ConfidenceJson)
       ELSE IF LooksCsv(t) THEN Detection(KindCsv, ConfidenceCsv)
       ELSE Detection(KindText, ConfidenceText)

\* webDetectContent taking the kind from the extension as given, not lower-cased
webDetectContentRawKind(cnt, extn) ==
    IF ToLowerCase(extn) \in KnownExtensions
    THEN Detection(HintKind(extn), ConfidenceHint)
    ELSE SniffContent(cnt)

\* the detector comparing the hint as it is given
webDetectContentCaseSensitive(cnt, extn) ==
    IF extn \in KnownExtensions
    THEN Detection(HintKind(extn), ConfidenceHint)
    ELSE SniffContent(cnt)

webDetectContent(cnt, extn) ==
    LET ext == ToLowerCase(extn)
    IN IF ext \in KnownExtensions
       THEN Detection(HintKind(ext), ConfidenceHint)
       ELSE SniffContent(cnt)

\* --------------------------------------------------- detector specification

DetChars == {"{", "[", "\"", ",", "x", " ", NL}

\* "{\"a\":1}"
ScenarioDetect == <<"{", "\"", "a", "\"", ":", "1", "}">>

DetInputs == StringsUpTo(DetChars, MaxDetLen) \cup {ScenarioDetect}

ExtJsonUpper == <<"J", "S", "O", "N">>

ExtMd == <<"m", "d">>

\* no extension, known extensions, an upper-case one and an unknown one
DetHints == {<<>>, KindJson, ExtYml, ExtEnv, ExtJsonUpper, ExtMd}

InitDet ==
    /\ content \in DetInputs
    /\ extension \in DetHints
    /\ segments = NotCalled
    /\ detected = NotCalled
    /\ DiffIdle
    /\ FmtIdle
    /\ ShellIdle
    /\ LoopIdle

\* webInvoke("detect_content", {content, extension})
DetectContent ==
    /\ detected' = Returned(webDetectContent(content, extension))
    /\ UNCHANGED <<segVars, diffVars, fmtVars, shellVars, loopVars>>

NextDet == DetectContent

SpecDet == InitDet /\ [][NextDet]_vars

\* --------------------------------------------------------- loops, by steps

LoopDiffInputs == StringsUpTo(DiffChars, MaxLoopLen) \X StringsUpTo(DiffChars, MaxLoopLen)

LoopSegInputs == StringsUpTo(SegChars, MaxLoopLen)

\* let i = 0, j = 0 and the two header lines
DiffStart == [i |-> 0, j |-> 0, lines |-> <<HeaderLeft, HeaderRight>>]

\* let i = 0, j = 0 and no block
StructStart == [i |-> 0, j |-> 0, blocks |-> <<>>]

\* let i = 0 and no segment
SegStart == [i |-> 0, segments |-> <<>>]

\* one of the three loops is entered with its inputs
InitLoop ==
    /\ \/ /\ \E p \in LoopDiffInputs : left = p[1] /\ right = p[2]
          /\ \/ loopName = "diff" /\ loopSt = DiffStart
             \/ loopName = "structured" /\ loopSt = StructStart
          /\ content = <<>>
       \/ /\ content \in LoopSegInputs
          /\ loopName = "segments" /\ loopSt = SegStart
          /\ left = <<>> /\ right = <<>>
    /\ extension = <<>>
    /\ segments = NotCalled
    /\ unified = NotCalled
    /\ structured = NotCalled
    /\ DetIdle
    /\ FmtIdle
    /\ ShellIdle

\* while (i < l.length || j < r.length)
DiffRunning == loopSt.i < Len(Split(left, NL)) \/ loopSt.j < Len(Split(right, NL))

\* while (i < lines.length)
SegRunning == loopSt.i < Len(Split(content, NL))

\* one iteration of the loop of webComputeDiff
DiffIterate ==
    /\ loopName = "diff"
    /\ DiffRunning
    /\ loopSt' = DiffStep(Split(left, NL), Split(right, NL), loopSt)
    /\ UNCHANGED <<loopName, diffVars, segVars, detVars, fmtVars, shellVars>>

\* one iteration of the outer loop of webComputeDiffStructured
StructIterate ==
    /\ loopName = "structured"
    /\ DiffRunning
    /\ loopSt' = StructStep(Split(left, NL), Split(right, NL), loopSt)
    /\ UNCHANGED <<loopName, diffVars, segVars, detVars, fmtVars, shellVars>>

\* one iteration of the scan of webDetectSegments
SegIterate ==
    /\ loopName = "segments"
    /\ SegRunning
    /\ loopSt' = SegStep(Split(content, NL), loopSt)
    /\ UNCHANGED <<loopName, diffVars, segVars, detVars, fmtVars, shellVars>>

NextLoop == DiffIterate \/ StructIterate \/ SegIterate

SpecLoop == InitLoop /\ [][NextLoop]_vars

\* ---------------------------------------------------------------- formatter

Digits == {"0", "1", "2", "3", "4", "5", "6", "7", "8", "9"}

\* parsed JSON values: numbers keep their digits, arrays their items
JsonNumber(ds) == [t |-> "number", digits |-> ds, items |-> <<>>]

JsonArray(vs) == [t |-> "array", digits |-> <<>>, items |-> vs]

ParseOk(v, k) == [ok |-> TRUE, val |-> v, next |-> k]

ParseFail == [ok |-> FALSE, val |-> JsonArray(<<>>), next |-> 0]

\* the first index from k on that holds no JSON white space
RECURSIVE SkipWs(_, _)
SkipWs(s, k) == IF k <= Len(s) /\ IsSpace(s[k]) THEN SkipWs(s, k + 1) ELSE k

\* the first index from k on that holds no digit
RECURSIVE DigitsEnd(_, _)
DigitsEnd(s, k) == IF k <= Len(s) /\ s[k] \in Digits THEN DigitsEnd(s, k + 1) ELSE k

\* JSON.parse, for texts of arrays and unsigned integers: a value from index k
RECURSIVE ParseValue(_, _)
RECURSIVE ParseArray(_, _)
RECURSIVE ParseItems(_, _, _)
ParseValue(s, k) ==
    LET k1 == SkipWs(s, k)
    IN IF k1 > Len(s) THEN ParseFail
       ELSE IF s[k1] = "[" THEN ParseArray(s, k1)
       ELSE IF s[k1] = "0" THEN ParseOk(JsonNumber(<<"0">>), k1 + 1)
       ELSE IF s[k1] \in Digits
       THEN LET k2 == DigitsEnd(s, k1)
            IN ParseOk(JsonNumber(SubSeq(s, k1, k2 - 1)), k2)
       ELSE ParseFail

\* an array whose '[' is at index k
ParseArray(s, k) ==
    LET k1 == SkipWs(s, k + 1)
    IN IF k1 <= Len(s) /\ s[k1] = "]" THEN ParseOk(JsonArray(<<>>), k1 + 1)
       ELSE ParseItems(s, k1, <<>>)

\* the items of an array from index k on, after the items acc
ParseItems(s, k, acc) ==
    LET v == ParseValue(s, k)
    IN IF ~v.ok THEN ParseFail
       ELSE LET k2 == SkipWs(s, v.next)
            IN IF k2 > Len(s) THEN ParseFail
               ELSE IF s[k2] = "," THEN ParseItems(s, k2 + 1, Append(acc, v.val))
               ELSE IF s[k2] = "]" THEN ParseOk(JsonArray(Append(acc, v.val)), k2 + 1)
               ELSE ParseFail

\* JSON.parse of a whole text
JsonParse(s) ==
    LET v == ParseValue(s, 1)
    IN IF v.ok /\ SkipWs(s, v.next) > Len(s) THEN v ELSE ParseFail

Indent(depth) == [k \in 1..(2 * depth) |-> " "]

\* JSON.stringify(value, null, 2) at nesting depth
RECURSIVE Stringify(_, _)
RECURSIVE StringifyItems(_, _)
Stringify(v, depth) ==
    IF v.t = "number" THEN v.digits
    ELSE IF Len(v.items) = 0 THEN <<"[", "]">>
    ELSE <<"[", NL>> \o StringifyItems(v.items, depth + 1) \o <<NL>> \o Indent(depth) \o <<"]">>

\* the items of an array, one per line, at nesting depth
StringifyItems(vs, depth) ==
    IF Len(vs) = 1 THEN Indent(depth) \o Stringify(vs[1], depth)
    ELSE Indent(depth) \o Stringify(vs[1], depth) \o <<",", NL>>
         \o StringifyItems(Tail(vs), depth)

ErrInvalidJson == <<"I", "n", "v", "a", "l", "i", "d", " ", "J", "S", "O", "N">>

\* returns [ok |-> TRUE, value |-> text], or [ok |-> FALSE, value |-> message] when it throws
webFormatJson(cnt) ==
    LET p == JsonParse(cnt)
    IN IF p.ok THEN [ok |-> TRUE, value |-> Stringify(p.val, 0)]
       ELSE [ok |-> FALSE, value |-> ErrInvalidJson]

Max(a, b) == IF a >= b THEN a ELSE b

Min(a, b) == IF a <= b THEN a ELSE b

\* Array.prototype.slice(start, end); a negative index counts from the end
Slice(arr, start, end) ==
    LET from == IF start < 0 THEN Max(Len(arr) + start, 0) ELSE Min(start, Len(arr))
        to == IF end < 0 THEN Max(Len(arr) + end, 0) ELSE Min(end, Len(arr))
    IN SubSeq(arr, from + 1, to)

\* the text of one segment without Math.max and Math.min
SegmentChunkNoClamp(lines, seg) ==
    Join(Slice(lines, seg.start_line - 1, seg.end_line), NL)

\* the text of one segment
SegmentChunk(lines, seg) ==
    LET start == Max(0, seg.start_line - 1)
        end == Min(Len(lines), seg.end_line)
    IN Join(Slice(lines, start, end), NL)

\* the loop body without its try/catch: a parse failure propagates
FormatSegmentNoCatch(lines, seg) ==
    LET chunk == SegmentChunk(lines, seg)
    IN IF seg.kind = KindJson THEN webFormatJson(chunk)
       ELSE [ok |-> TRUE, value |-> chunk]

\* the body of the for loop: what is pushed to out for one segment
FormatSegment(lines, seg) ==
    LET chunk == SegmentChunk(lines, seg)
    IN IF seg.kind = KindJson
       THEN LET f == webFormatJson(chunk)
            IN IF f.ok THEN f ELSE [ok |-> TRUE, value |-> chunk]
       ELSE [ok |-> TRUE, value |-> chunk]

\* the for loop: out after the segments from index k on; an exception ends it
RECURSIVE FormatLoop(_, _, _, _)
FormatLoop(lines, segs, k, out) ==
    IF k > Len(segs) THEN [ok |-> TRUE, value |-> out]
    ELSE LET piece == FormatSegment(lines, segs[k])
         IN IF piece.ok THEN FormatLoop(lines, segs, k + 1, Append(out, piece.value))
            ELSE [ok |-> FALSE, value |-> piece.value]

webFormatContentSegmented(cnt, segs) ==
    LET lines == Split(cnt, NL)
    IN IF Len(lines) = 0 THEN [ok |-> TRUE, value |-> cnt]
       ELSE IF Len(segs) = 0
       THEN LET f == webFormatJson(cnt)
            IN IF f.ok THEN f ELSE [ok |-> TRUE, value |-> cnt]
       ELSE LET out == FormatLoop(lines, segs, 1, <<>>)
            IN IF out.ok THEN [ok |-> TRUE, value |-> Join(out.value, NL)] ELSE out

\* -------------------------------------------------- formatter specification

FmtChars == {"[", "]", "1", ",", NL}

\* a JSON line, a text line and an unfinished JSON line
ScenarioFormat == <<"[", "1", "]", NL, "1", NL, "[">>

FmtInputs == StringsUpTo(FmtChars, MaxFmtLen) \cup {ScenarioFormat}

\* a segment list whose line numbers are all moved by d
ShiftSegments(segs, d) ==
    [k \in 1..Len(segs) |->
        Segment(segs[k].start_line + d, segs[k].end_line + d, segs[k].kind)]

\* the segment lists a caller may hold for a buffer: none, the list of the
\* buffer, and stale lists, computed before a line was removed at the end or at
\* the start of the buffer
FmtSegmentLists(cnt) ==
    {<<>>,
     webDetectSegments(cnt, <<>>),
     webDetectSegments(cnt \o <<NL, "[", "1", "]">>, <<>>),
     ShiftSegments(webDetectSegments(cnt, <<>>), -1),
     ShiftSegments(webDetectSegments(cnt, <<>>), 1)}

InitFmt ==
    /\ content \in FmtInputs
    /\ extension = <<>>
    /\ segments = NotCalled
    /\ fmtSegments \in FmtSegmentLists(content)
    /\ formatted = NotCalled
    /\ DiffIdle
    /\ DetIdle
    /\ ShellIdle
    /\ LoopIdle

\* webInvoke("format_content_segmented", {content, segments})
FormatContentSegmented ==
    /\ formatted' = Settled(webFormatContentSegmented(content, fmtSegments))
    /\ UNCHANGED <<segVars, fmtSegments, diffVars, detVars, shellVars, loopVars>>

NextFmt == FormatContentSegmented

SpecFmt == InitFmt /\ [][NextFmt]_vars

\* --------------------------------------------------------------------- shell

\* an optional field that is undefined or null
None == [some |-> FALSE, value |-> <<>>]

Some(v) == [some |-> TRUE, value |-> v]

StateEphemeral == "ephemeral"

StateDirty == "dirty"

StateClean == "clean"

DecimalDigits == <<"0", "1", "2", "3", "4", "5", "6", "7", "8", "9">>

\* the decimal text of a natural number, as a template literal writes it
RECURSIVE DecimalString(_)
DecimalString(n) ==
    IF n < 10 THEN <<DecimalDigits[n + 1]>>
    ELSE DecimalString(n \div 10) \o <<DecimalDigits[(n % 10) + 1]>>

\* `Untitled-${id.replace("tab-", "")}`; the tab id tab-n is modelled as n
defaultLabel(id) == <<"U", "n", "t", "i", "t", "l", "e", "d", "-">> \o DecimalString(id)

\* String.prototype.lastIndexOf for one character, 0-based, -1 if absent
LastIndexOf(s, ch) ==
    IF \E k \in 1..Len(s) : s[k] = ch
    THEN (CHOOSE k \in 1..Len(s) : s[k] = ch /\ \A m \in (k + 1)..Len(s) : s[m] # ch) - 1
    ELSE -1

\* basename without its slice: the whole path is the name
basenameWholePath(path) == path

basename(path) ==
    LET last == Max(LastIndexOf(path, "/"), LastIndexOf(path, "\\"))
    IN IF last = -1 THEN path ELSE SubSeq(path, last + 2, Len(path))

getExtension(path) ==
    LET name == basename(path)
        dot == LastIndexOf(name, ".")
    IN IF dot = -1 THEN <<>> ELSE ToLowerCase(SubSeq(name, dot + 2, Len(name)))

\* the tab that addTab and the initial state create
NewTab(id) ==
    [id |-> id, label |-> defaultLabel(id), content |-> <<>>, state |-> StateEphemeral,
     path |-> None, detectedKind |-> None, segments |-> None, diffData |-> None,
     displayAsFormatted |-> FALSE, formattedView |-> None, pinned |-> FALSE,
     diffUnified |-> None, diffViewMode |-> None]

\* the tab that openFile creates
FileTab(id, path, cnt) ==
    LET segs == webDetectSegments(cnt, getExtension(path))
    IN [NewTab(id) EXCEPT
           !.label = basename(path),
           !.content = cnt,
           !.state = StateClean,
           !.path = Some(path),
           !.detectedKind = Some(webDetectContent(cnt, getExtension(path)).kind),
           !.segments = IF Len(segs) > 0 THEN Some(segs) ELSE None]

KindDiff == <<"d", "i", "f", "f">>

SideBySide == "side-by-side"

Inline == "inline"

\* `Diff: ${leftLabel} vs ${rightLabel}`
DiffLabel(leftLabel, rightLabel) ==
    <<"D", "i", "f", "f", ":", " ">> \o leftLabel \o <<" ", "v", "s", " ">> \o rightLabel

\* the tab that runDiff creates from the contents and labels of its call
DiffTab(id, call) ==
    [NewTab(id) EXCEPT
        !.label = DiffLabel(call.leftLabel, call.rightLabel),
        !.detectedKind = Some(KindDiff),
        !.diffData = Some([webComputeDiffStructured(call.content, call.right) EXCEPT
                              !.left_label = call.leftLabel,
                              !.right_label = call.rightLabel]),
        !.diffUnified = Some(webComputeDiff(call.content, call.right)),
        !.diffViewMode = Some(SideBySide)]

\* tabs.find((t) => t.id === id) finds a tab
HasTab(ts, id) == \E k \in 1..Len(ts) : ts[k].id = id

TabOf(ts, id) == ts[CHOOSE k \in 1..Len(ts) : ts[k].id = id]

\* tabs.findIndex((tab) => tab.id === id), 0-based, -1 if absent
FindIndex(ts, id) ==
    IF HasTab(ts, id) THEN (CHOOSE k \in 1..Len(ts) : ts[k].id = id) - 1 ELSE -1

\* tabs.filter((tab) => tab.id !== id)
RECURSIVE Without(_, _)
Without(ts, id) ==
    IF ts = <<>> THEN <<>>
    ELSE IF Head(ts).id = id THEN Without(Tail(ts), id)
    ELSE <<Head(ts)>> \o Without(Tail(ts), id)

\* tab.segments ?? []
SegmentsOrEmpty(tab) == IF tab.segments.some THEN tab.segments.value ELSE <<>>

\* activeTab.path ? getExtension(activeTab.path) : undefined, passed as ""
ExtensionOf(tab) == IF tab.path.some THEN getExtension(tab.path.value) ELSE <<>>

setTabContent(ts, id, cnt) ==
    [k \in 1..Len(ts) |->
        IF ts[k].id = id THEN [ts[k] EXCEPT !.content = cnt, !.state = StateDirty]
        ELSE ts[k]]

setTabDetectedKind(ts, id, kind) ==
    [k \in 1..Len(ts) |->
        IF ts[k].id = id THEN [ts[k] EXCEPT !.detectedKind = Some(kind)] ELSE ts[k]]

setTabSegments(ts, id, segs) ==
    [k \in 1..Len(ts) |->
        IF ts[k].id = id THEN [ts[k] EXCEPT !.segments = Some(segs)] ELSE ts[k]]

setTabDisplayFormatted(ts, id, view, on) ==
    [k \in 1..Len(ts) |->
        IF ts[k].id = id
        THEN [ts[k] EXCEPT !.displayAsFormatted = on, !.formattedView = view]
        ELSE ts[k]]

\* the refresh effect's setTabs: only the cached view changes
setTabFormattedView(ts, id, view) ==
    [k \in 1..Len(ts) |->
        IF ts[k].id = id THEN [ts[k] EXCEPT !.formattedView = Some(view)] ELSE ts[k]]

setTabPinned(ts, id, pinned) ==
    [k \in 1..Len(ts) |-> IF ts[k].id = id THEN [ts[k] EXCEPT !.pinned = pinned] ELSE ts[k]]

\* a view switch that also forgets the unified text
setTabDiffViewModeDropsUnified(ts, id, mode) ==
    [k \in 1..Len(ts) |->
        IF ts[k].id = id
        THEN [ts[k] EXCEPT !.diffViewMode = Some(mode), !.diffUnified = None]
        ELSE ts[k]]

setTabDiffViewMode(ts, id, mode) ==
    [k \in 1..Len(ts) |->
        IF ts[k].id = id THEN [ts[k] EXCEPT !.diffViewMode = Some(mode)] ELSE ts[k]]

setTabSaved(ts, id, path, label) ==
    [k \in 1..Len(ts) |->
        IF ts[k].id = id
        THEN [ts[k] EXCEPT !.path = Some(path), !.label = label, !.state = StateClean]
        ELSE ts[k]]

setTabStateClean(ts, id) ==
    [k \in 1..Len(ts) |->
        IF ts[k].id = id THEN [ts[k] EXCEPT !.state = StateClean] ELSE ts[k]]

\* Array.prototype.slice(0, n)
Take(s, n) == SubSeq(s, 1, Min(n, Len(s)))

\* the entry of the recently closed list for a tab closed at a 0-based index
ClosedEntry(tab, index) == [tab |-> tab, index |-> index]

\* closeTab pushing without slice(0, MAX_RECENTLY_CLOSED)
PushClosedUncapped(closed, prev) == closed \o prev

\* [...closed, ...prev].slice(0, MAX_RECENTLY_CLOSED)
PushClosed(closed, prev) == Take(closed \o prev, MAX_RECENTLY_CLOSED)

\* nextActive of closeTab, computed from the tabs of its closure; 0 is null
NextActive(ts, id) ==
    LET closedIndex == FindIndex(ts, id)
        remaining == Without(ts, id)
        at == Min(closedIndex, Len(remaining) - 1)
    IN IF Len(remaining) > 0
       THEN IF at >= 0 THEN remaining[at + 1].id ELSE remaining[1].id
       ELSE 0

\* tabs.map((tab, index) => ({ tab, index })).reverse()
RECURSIVE AllClosedReversed(_, _)
AllClosedReversed(ts, n) ==
    IF n = 0 THEN <<>> ELSE <<ClosedEntry(ts[n], n - 1)>> \o AllClosedReversed(ts, n - 1)

\* [...t.slice(0, i), tab, ...t.slice(i)] with i = Math.min(index, t.length)
InsertTab(ts, tab, index) ==
    LET i == Min(index, Len(ts))
    IN SubSeq(ts, 1, i) \o <<tab>> \o SubSeq(ts, i + 1, Len(ts))

\* const next = recentlyClosed[0]
NextRestored(closed) == closed[1]

\* the dependencies of the detection effect: the active tab's id, content,
\* path and diffData
DetectDeps(ts, aid) ==
    IF HasTab(ts, aid)
    THEN <<aid, TabOf(ts, aid).content, TabOf(ts, aid).path, TabOf(ts, aid).diffData>>
    ELSE <<0, <<>>, None, None>>

\* the detection effect after a render: when its dependencies changed, the
\* cleanup clears the pending timer and a new one is set for the active tab,
\* unless there is none or it is a diff tab
DetectEffect(ts, aid, ts2, aid2, timer) ==
    IF DetectDeps(ts2, aid2) = DetectDeps(ts, aid) THEN timer
    ELSE IF HasTab(ts2, aid2) /\ ~TabOf(ts2, aid2).diffData.some
    THEN [armed |-> TRUE, tabId |-> aid2, content |-> TabOf(ts2, aid2).content,
          extension |-> ExtensionOf(TabOf(ts2, aid2))]
    ELSE NoTimer

\* the dependencies of the refresh effect: activeId and the active tab's
\* content, displayAsFormatted and segments
RefreshDeps(ts, aid) ==
    IF HasTab(ts, aid)
    THEN <<aid, TabOf(ts, aid).content, TabOf(ts, aid).displayAsFormatted,
           TabOf(ts, aid).segments>>
    ELSE <<aid, <<>>, FALSE, None>>

\* the refresh effect after a render: when its dependencies changed (a stored
\* segment array is always a new one), the cleanup cancels the awaited call and
\* a new call is made if the active tab is displayed formatted
RefreshEffect(ts, aid, ts2, aid2, newArray, call) ==
    IF RefreshDeps(ts2, aid2) = RefreshDeps(ts, aid) /\ ~newArray THEN call
    ELSE IF HasTab(ts2, aid2) /\ TabOf(ts2, aid2).displayAsFormatted
    THEN [pending |-> TRUE, tabId |-> aid2, content |-> TabOf(ts2, aid2).content,
          segments |-> SegmentsOrEmpty(TabOf(ts2, aid2))]
    ELSE NoCall

\* a render with new tabs and active id, followed by the two effects
Render(ts2, aid2, newArray) ==
    /\ tabs' = ts2
    /\ activeId' = aid2
    /\ detectTimer' = DetectEffect(tabs, activeId, ts2, aid2, detectTimer)
    /\ refreshCall' = RefreshEffect(tabs, activeId, ts2, aid2, newArray, refreshCall)

\* an awaited format_content_segmented call of requestFormatJson ("preview")
\* or toggleDisplayFormatted ("display")
FormatCall(op, tab) ==
    [op |-> op, tabId |-> tab.id, content |-> tab.content,
     segments |-> SegmentsOrEmpty(tab)]

\* what invoke("format_content_segmented") resolves to
FormatResult(call) == webFormatContentSegmented(call.content, call.segments).value

\* an awaited call of saveCurrentTab ("save"), saveAsCurrentTab ("saveAs"),
\* openFile ("open") or runDiff ("diff"), with what its continuation uses
IoCall(op, tabId, path, cnt, rgt, leftLabel, rightLabel) ==
    [op |-> op, tabId |-> tabId, path |-> path, content |-> cnt, right |-> rgt,
     leftLabel |-> leftLabel, rightLabel |-> rightLabel]

\* the invoke calls that have not resolved yet
InFlight == Cardinality(detectCalls) + Cardinality(formatCalls) + Cardinality(ioCalls)

\* runDiff calls that will still take a tab id
IdsAwaited == Cardinality({c \in ioCalls : c.op = "diff"})

\* the texts a user types into the editor
ShellTexts == {<<>>, <<"[", "1", "]">>}

\* the files the open dialog can return, as path and content
ShellFiles == {[path |-> <<"d", "/", "a", ".", "J", "S", "O", "N">>, content |-> <<"1">>]}

\* the paths the save dialog can return
SavePaths == {<<"d", "\\", "b">>}

\* the texts the clipboard can hold
ClipboardTexts == {<<"1">>}

ClipboardLabel == <<"C", "l", "i", "p", "b", "o", "a", "r", "d">>

\* the state after the first render: one empty tab, its detection timer set
InitShell ==
    /\ tabs = <<NewTab(1)>>
    /\ activeId = 1
    /\ tabIdCounter = 1
    /\ formatPreview = NoPreview
    /\ detectTimer = [armed |-> TRUE, tabId |-> 1, content |-> <<>>, extension |-> <<>>]
    /\ detectCalls = {}
    /\ formatCalls = {}
    /\ refreshCall = NoCall
    /\ commands = 0
    /\ recentlyClosed = <<>>
    /\ dialog = NoDialog
    /\ ioCalls = {}
    /\ reported = 0
    /\ inFlightLimit = MaxInFlight
    /\ asks = <<>>
    /\ DiffIdle
    /\ SegIdle
    /\ DetIdle
    /\ FmtIdle
    /\ LoopIdle

\* one more command of the user; a native dialog takes every command
UserCommand ==
    /\ commands < MaxCommands
    /\ commands' = commands + 1
    /\ dialog = NoDialog

\* the other components and the limit of calls in flight
Components == <<diffVars, segVars, detVars, fmtVars, loopVars, inFlightLimit>>

\* what a shell step leaves alone, unless the step is about a prompt that
\* does not hold back further commands
Others == <<Components, asks>>

addTab ==
    /\ UserCommand
    /\ tabIdCounter + IdsAwaited < MaxTabs
    /\ tabIdCounter' = tabIdCounter + 1
    /\ Render(Append(tabs, NewTab(tabIdCounter + 1)), tabIdCounter + 1, FALSE)
    /\ UNCHANGED <<formatPreview, detectCalls, formatCalls, recentlyClosed, dialog, ioCalls, reported>>
    /\ UNCHANGED Others

\* TabBar onSelect={setActiveId}
SelectTab ==
    \E id \in 1..tabIdCounter :
        /\ UserCommand
        /\ HasTab(tabs, id)
        /\ id # activeId
        /\ Render(tabs, id, FALSE)
        /\ UNCHANGED <<tabIdCounter, formatPreview, detectCalls, formatCalls,
                       recentlyClosed, dialog, ioCalls, reported>>
        /\ UNCHANGED Others

\* EditorPane onChange: the user changes the text of the active tab; the
\* editor is read-only while the tab is displayed formatted, and a diff tab
\* has no editor that reports changes
EditContent ==
    \E cnt \in ShellTexts :
        /\ UserCommand
        /\ HasTab(tabs, activeId)
        /\ ~TabOf(tabs, activeId).diffData.some
        /\ ~TabOf(tabs, activeId).displayAsFormatted
        /\ cnt # TabOf(tabs, activeId).content
        /\ Render(setTabContent(tabs, activeId, cnt), activeId, FALSE)
        /\ UNCHANGED <<tabIdCounter, formatPreview, detectCalls, formatCalls,
                       recentlyClosed, dialog, ioCalls, reported>>
        /\ UNCHANGED Others

\* the debounce timer fires: runDetection invokes detect_content and
\* detect_segments with the content and extension of its render
DetectTimerFires ==
    /\ detectTimer.armed
    /\ InFlight < inFlightLimit
    /\ detectCalls' =
           detectCalls \cup {[tabId |-> detectTimer.tabId, content |-> detectTimer.content,
                              extension |-> detectTimer.extension]}
    /\ detectTimer' = NoTimer
    /\ UNCHANGED <<tabs, activeId, tabIdCounter, formatPreview, formatCalls, refreshCall,
                   commands, recentlyClosed, dialog, ioCalls, reported>>
    /\ UNCHANGED Others

\* Promise.all resolves: both results are stored on the tab of the call
DetectionCompletes ==
    \E call \in detectCalls :
        /\ detectCalls' = detectCalls \ {call}
        /\ Render(setTabSegments(
                      setTabDetectedKind(tabs, call.tabId,
                                         webDetectContent(call.content, call.extension).kind),
                      call.tabId, webDetectSegments(call.content, call.extension)),
                  activeId, call.tabId = activeId)
        /\ UNCHANGED <<tabIdCounter, formatPreview, formatCalls, commands,
                       recentlyClosed, dialog, ioCalls, reported>>
        /\ UNCHANGED Others

requestFormatJson ==
    /\ UserCommand
    /\ HasTab(tabs, activeId)
    /\ ~TabOf(tabs, activeId).diffData.some
    /\ InFlight < inFlightLimit
    /\ formatCalls' = formatCalls \cup {FormatCall("preview", TabOf(tabs, activeId))}
    /\ UNCHANGED <<tabs, activeId, tabIdCounter, formatPreview, detectTimer,
                   detectCalls, refreshCall, recentlyClosed, dialog, ioCalls, reported>>
    /\ UNCHANGED Others

\* a preview call whose result is written to the tab at once
PreviewCompletesApplying ==
    \E call \in formatCalls :
        /\ call.op = "preview"
        /\ formatCalls' = formatCalls \ {call}
        /\ formatPreview' = NoPreview
        /\ Render(setTabContent(tabs, call.tabId, FormatResult(call)), activeId, FALSE)
        /\ UNCHANGED <<tabIdCounter, detectCalls, commands, recentlyClosed, dialog, ioCalls, reported>>
        /\ UNCHANGED Others

\* the call of requestFormatJson resolves: the preview opens
PreviewCompletes ==
    \E call \in formatCalls :
        /\ call.op = "preview"
        /\ formatCalls' = formatCalls \ {call}
        /\ formatPreview' =
               [open |-> TRUE, formatted |-> FormatResult(call), tabId |-> call.tabId]
        /\ UNCHANGED <<tabs, activeId, tabIdCounter, detectTimer, detectCalls, refreshCall,
                       commands, recentlyClosed, dialog, ioCalls, reported>>
        /\ UNCHANGED Others

\* FormatPreviewModal onCancel
CancelPreview ==
    /\ UserCommand
    /\ formatPreview.open
    /\ formatPreview' = NoPreview
    /\ UNCHANGED <<tabs, activeId, tabIdCounter, detectTimer, detectCalls,
                   formatCalls, refreshCall, recentlyClosed, dialog, ioCalls, reported>>
    /\ UNCHANGED Others

applyFormatPreview ==
    /\ UserCommand
    /\ formatPreview.open
    /\ formatPreview' = NoPreview
    /\ Render(setTabContent(tabs, formatPreview.tabId, formatPreview.formatted),
              activeId, FALSE)
    /\ UNCHANGED <<tabIdCounter, detectCalls, formatCalls, recentlyClosed, dialog, ioCalls, reported>>
    /\ UNCHANGED Others

toggleDisplayFormatted ==
    /\ UserCommand
    /\ HasTab(tabs, activeId)
    /\ ~TabOf(tabs, activeId).diffData.some
    /\ IF TabOf(tabs, activeId).displayAsFormatted
       THEN /\ Render(setTabDisplayFormatted(tabs, activeId, None, FALSE), activeId, FALSE)
            /\ UNCHANGED formatCalls
       ELSE /\ InFlight < inFlightLimit
            /\ formatCalls' =
                   formatCalls \cup {FormatCall("display", TabOf(tabs, activeId))}
            /\ UNCHANGED <<tabs, activeId, detectTimer, refreshCall>>
    /\ UNCHANGED <<tabIdCounter, formatPreview, detectCalls, recentlyClosed, dialog, ioCalls, reported>>
    /\ UNCHANGED Others

\* the call of toggleDisplayFormatted resolves: the tab is displayed formatted
DisplayCompletes ==
    \E call \in formatCalls :
        /\ call.op = "display"
        /\ formatCalls' = formatCalls \ {call}
        /\ Render(setTabDisplayFormatted(tabs, call.tabId, Some(FormatResult(call)), TRUE),
                  activeId, FALSE)
        /\ UNCHANGED <<tabIdCounter, formatPreview, detectCalls, commands,
                       recentlyClosed, dialog, ioCalls, reported>>
        /\ UNCHANGED Others

\* the call of the refresh effect resolves without having been cancelled
RefreshCompletes ==
    /\ refreshCall.pending
    /\ tabs' = setTabFormattedView(tabs, refreshCall.tabId, FormatResult(refreshCall))
    /\ refreshCall' = NoCall
    /\ UNCHANGED <<activeId, tabIdCounter, formatPreview, detectTimer,
                   detectCalls, formatCalls, commands, recentlyClosed, dialog, ioCalls, reported>>
    /\ UNCHANGED Others

\* closeTab(id) run with the tabs of the render that created the callback:
\* the closed tab is pushed on the recently-closed list, the tab list is set
\* to the closure's tabs without it, and activeId moves only if it was closed
closeTab(ts, id) ==
    /\ recentlyClosed' =
           IF HasTab(ts, id)
           THEN PushClosed(<<ClosedEntry(TabOf(ts, id), FindIndex(ts, id))>>, recentlyClosed)
           ELSE recentlyClosed
    /\ Render(Without(ts, id), IF activeId = id THEN NextActive(ts, id) ELSE activeId, FALSE)

\* closeTabMaybeConfirm on a tab that is not pinned: closeTab at once
CloseTab ==
    \E id \in 1..tabIdCounter :
        /\ UserCommand
        /\ HasTab(tabs, id)
        /\ ~TabOf(tabs, id).pinned
        /\ closeTab(tabs, id)
        /\ UNCHANGED <<tabIdCounter, formatPreview, detectCalls, formatCalls, dialog,
                       ioCalls, reported>>
        /\ UNCHANGED Others

\* closeTabMaybeConfirm on a pinned tab: the handler awaits ask(...), holding
\* the tabs of its render
CloseTabAsks ==
    \E id \in 1..tabIdCounter :
        /\ UserCommand
        /\ HasTab(tabs, id)
        /\ TabOf(tabs, id).pinned
        /\ dialog' = [kind |-> "ask", tabId |-> id, tabs |-> tabs, content |-> <<>>]
        /\ UNCHANGED <<tabs, activeId, tabIdCounter, formatPreview, detectTimer, detectCalls,
                       formatCalls, refreshCall, recentlyClosed, ioCalls, reported>>
        /\ UNCHANGED Others

\* the user accepts "Close pinned tab?": closeTab runs in the handler's closure
PromptAccepted ==
    /\ dialog.kind = "ask"
    /\ dialog' = NoDialog
    /\ closeTab(dialog.tabs, dialog.tabId)
    /\ UNCHANGED <<tabIdCounter, formatPreview, detectCalls, formatCalls, commands,
                   ioCalls, reported>>
    /\ UNCHANGED Others

\* a declined prompt that closes the tab all the same
PromptDeclinedCloses == PromptAccepted

\* the user declines "Close pinned tab?": if (!yes) return
PromptDeclined ==
    /\ dialog.kind = "ask"
    /\ dialog' = NoDialog
    /\ UNCHANGED <<tabs, activeId, tabIdCounter, formatPreview, detectTimer, detectCalls,
                   formatCalls, refreshCall, commands, recentlyClosed, ioCalls, reported>>
    /\ UNCHANGED Others

closeAllTabs ==
    /\ UserCommand
    /\ Len(tabs) > 0
    /\ recentlyClosed' = PushClosed(AllClosedReversed(tabs, Len(tabs)), recentlyClosed)
    /\ Render(<<>>, 0, FALSE)
    /\ UNCHANGED <<tabIdCounter, formatPreview, detectCalls, formatCalls, dialog,
                   ioCalls, reported>>
    /\ UNCHANGED Others

restoreClosedTab ==
    /\ UserCommand
    /\ IF Len(recentlyClosed) = 0
       THEN UNCHANGED <<tabs, activeId, detectTimer, refreshCall, recentlyClosed>>
       ELSE LET next == NextRestored(recentlyClosed)
            IN /\ recentlyClosed' = Tail(recentlyClosed)
               /\ Render(InsertTab(tabs, next.tab, next.index), next.tab.id, FALSE)
    /\ UNCHANGED <<tabIdCounter, formatPreview, detectCalls, formatCalls, dialog,
                   ioCalls, reported>>
    /\ UNCHANGED Others

toggleTabPin ==
    \E id \in 1..tabIdCounter :
        /\ UserCommand
        /\ HasTab(tabs, id)
        /\ Render(setTabPinned(tabs, id, ~TabOf(tabs, id).pinned), activeId, FALSE)
        /\ UNCHANGED <<tabIdCounter, formatPreview, detectCalls, formatCalls,
                       recentlyClosed, dialog, ioCalls, reported>>
        /\ UNCHANGED Others

\* the view mode buttons of the active diff tab
SetDiffViewMode ==
    \E mode \in {SideBySide, Inline} :
        /\ UserCommand
        /\ HasTab(tabs, activeId)
        /\ TabOf(tabs, activeId).diffData.some
        /\ TabOf(tabs, activeId).diffViewMode # Some(mode)
        /\ Render(setTabDiffViewMode(tabs, activeId, mode), activeId, FALSE)
        /\ UNCHANGED <<tabIdCounter, formatPreview, detectCalls, formatCalls,
                       recentlyClosed, dialog, ioCalls, reported>>
        /\ UNCHANGED Others

\* Save (offered for a dirty tab that has a path): write_file is awaited with
\* the path and content of the handler's render
saveCurrentTab ==
    /\ UserCommand
    /\ HasTab(tabs, activeId)
    /\ TabOf(tabs, activeId).path.some
    /\ ~TabOf(tabs, activeId).diffData.some
    /\ TabOf(tabs, activeId).state = StateDirty
    /\ InFlight < inFlightLimit
    /\ ioCalls' = ioCalls \cup
           {IoCall("save", activeId, TabOf(tabs, activeId).path.value,
                   TabOf(tabs, activeId).content, <<>>, <<>>, <<>>)}
    /\ UNCHANGED <<tabs, activeId, tabIdCounter, formatPreview, detectTimer, detectCalls,
                   formatCalls, refreshCall, recentlyClosed, dialog, reported>>
    /\ UNCHANGED Others

\* Save As: the save dialog is awaited, holding the tab of the handler's render
saveAsCurrentTab ==
    /\ UserCommand
    /\ HasTab(tabs, activeId)
    /\ ~TabOf(tabs, activeId).diffData.some
    /\ dialog' = [kind |-> "save", tabId |-> activeId, tabs |-> <<>>,
                  content |-> TabOf(tabs, activeId).content]
    /\ UNCHANGED <<tabs, activeId, tabIdCounter, formatPreview, detectTimer, detectCalls,
                   formatCalls, refreshCall, recentlyClosed, ioCalls, reported>>
    /\ UNCHANGED Others

\* the save dialog returns null
SaveDialogCancelled ==
    /\ dialog.kind = "save"
    /\ dialog' = NoDialog
    /\ UNCHANGED <<tabs, activeId, tabIdCounter, formatPreview, detectTimer, detectCalls,
                   formatCalls, refreshCall, commands, recentlyClosed, ioCalls, reported>>
    /\ UNCHANGED Others

\* the save dialog returns a path: write_file is awaited
SaveDialogChosen ==
    \E path \in SavePaths :
        /\ dialog.kind = "save"
        /\ InFlight < inFlightLimit
        /\ dialog' = NoDialog
        /\ ioCalls' = ioCalls \cup
               {IoCall("saveAs", dialog.tabId, path, dialog.content, <<>>, <<>>, <<>>)}
        /\ UNCHANGED <<tabs, activeId, tabIdCounter, formatPreview, detectTimer, detectCalls,
                       formatCalls, refreshCall, commands, recentlyClosed, reported>>
        /\ UNCHANGED Others

\* write_file resolves: setTabStateClean after Save, setTabSaved after Save As
WriteCompletes ==
    \E call \in ioCalls :
        /\ call.op \in {"save", "saveAs"}
        /\ ioCalls' = ioCalls \ {call}
        /\ Render(IF call.op = "save"
                  THEN setTabStateClean(tabs, call.tabId)
                  ELSE setTabSaved(tabs, call.tabId, call.path, basename(call.path)),
                  activeId, FALSE)
        /\ UNCHANGED <<tabIdCounter, formatPreview, detectCalls, formatCalls, commands,
                       recentlyClosed, dialog, reported>>
        /\ UNCHANGED Others

\* an awaited invoke of Save, Save As, Open or Diff rejects: the catch block
\* shows an error dialog
CallFails ==
    \E call \in ioCalls :
        /\ ioCalls' = ioCalls \ {call}
        /\ reported' = reported + 1
        /\ UNCHANGED <<tabs, activeId, tabIdCounter, formatPreview, detectTimer, detectCalls,
                       formatCalls, refreshCall, commands, recentlyClosed, dialog>>
        /\ UNCHANGED Others

\* Open: the open dialog is awaited
openFile ==
    /\ UserCommand
    /\ dialog' = [kind |-> "open", tabId |-> 0, tabs |-> <<>>, content |-> <<>>]
    /\ UNCHANGED <<tabs, activeId, tabIdCounter, formatPreview, detectTimer, detectCalls,
                   formatCalls, refreshCall, recentlyClosed, ioCalls, reported>>
    /\ UNCHANGED Others

\* the open dialog returns null
OpenDialogCancelled ==
    /\ dialog.kind = "open"
    /\ dialog' = NoDialog
    /\ UNCHANGED <<tabs, activeId, tabIdCounter, formatPreview, detectTimer, detectCalls,
                   formatCalls, refreshCall, commands, recentlyClosed, ioCalls, reported>>
    /\ UNCHANGED Others

\* the open dialog returns a path and read_file rejects
OpenReadFails ==
    /\ dialog.kind = "open"
    /\ dialog' = NoDialog
    /\ reported' = reported + 1
    /\ UNCHANGED <<tabs, activeId, tabIdCounter, formatPreview, detectTimer, detectCalls,
                   formatCalls, refreshCall, commands, recentlyClosed, ioCalls>>
    /\ UNCHANGED Others

\* the open dialog returns a file and its content is read: nextTabId() takes
\* an id and the two detection calls are awaited
OpenDialogChosen ==
    \E file \in ShellFiles :
        /\ dialog.kind = "open"
        /\ InFlight < inFlightLimit
        /\ tabIdCounter + IdsAwaited < MaxTabs
        /\ dialog' = NoDialog
        /\ tabIdCounter' = tabIdCounter + 1
        /\ ioCalls' = ioCalls \cup
               {IoCall("open", tabIdCounter + 1, file.path, file.content, <<>>, <<>>, <<>>)}
        /\ UNCHANGED <<tabs, activeId, formatPreview, detectTimer, detectCalls,
                       formatCalls, refreshCall, commands, recentlyClosed, reported>>
        /\ UNCHANGED Others

\* the detection calls of openFile resolve: the tab is appended and activated
OpenCompletes ==
    \E call \in ioCalls :
        /\ call.op = "open"
        /\ ioCalls' = ioCalls \ {call}
        /\ Render(Append(tabs, FileTab(call.tabId, call.path, call.content)),
                  call.tabId, FALSE)
        /\ UNCHANGED <<tabIdCounter, formatPreview, detectCalls, formatCalls, commands,
                       recentlyClosed, dialog, reported>>
        /\ UNCHANGED Others

\* the tabs the diff picker offers: those without diffData
Editable(ts) == {k \in 1..Len(ts) : ~ts[k].diffData.some}

\* Show diff with another tab on the right: both contents are read from the
\* tabs of the handler's render and the two diff calls are awaited
runDiff ==
    \E l \in Editable(tabs), r \in Editable(tabs) :
        /\ UserCommand
        /\ InFlight < inFlightLimit
        /\ tabIdCounter + IdsAwaited < MaxTabs
        /\ ioCalls' = ioCalls \cup
               {IoCall("diff", 0, <<>>, tabs[l].content, tabs[r].content,
                       tabs[l].label, tabs[r].label)}
        /\ UNCHANGED <<tabs, activeId, tabIdCounter, formatPreview, detectTimer, detectCalls,
                       formatCalls, refreshCall, recentlyClosed, dialog, reported>>
        /\ UNCHANGED Others

\* Show diff with the clipboard on the right: readText() resolves and the two
\* diff calls are awaited
runDiffClipboard ==
    \E l \in Editable(tabs), text \in ClipboardTexts :
        /\ UserCommand
        /\ InFlight < inFlightLimit
        /\ tabIdCounter + IdsAwaited < MaxTabs
        /\ ioCalls' = ioCalls \cup
               {IoCall("diff", 0, <<>>, tabs[l].content, text, tabs[l].label, ClipboardLabel)}
        /\ UNCHANGED <<tabs, activeId, tabIdCounter, formatPreview, detectTimer, detectCalls,
                       formatCalls, refreshCall, recentlyClosed, dialog, reported>>
        /\ UNCHANGED Others

\* Show diff with the clipboard on the right and readText() rejects
runDiffClipboardFails ==
    /\ UserCommand
    /\ Editable(tabs) # {}
    /\ reported' = reported + 1
    /\ UNCHANGED <<tabs, activeId, tabIdCounter, formatPreview, detectTimer, detectCalls,
                   formatCalls, refreshCall, recentlyClosed, dialog, ioCalls>>
    /\ UNCHANGED Others

\* the diff calls resolve: nextTabId() takes an id, the diff tab is appended
\* and activated
DiffCompletes ==
    \E call \in ioCalls :
        /\ call.op = "diff"
        /\ ioCalls' = ioCalls \ {call}
        /\ tabIdCounter' = tabIdCounter + 1
        /\ Render(Append(tabs, DiffTab(tabIdCounter + 1, call)), tabIdCounter + 1, FALSE)
        /\ UNCHANGED <<formatPreview, detectCalls, formatCalls, commands,
                       recentlyClosed, dialog, reported>>
        /\ UNCHANGED Others

NextShell ==
    \/ addTab
    \/ SelectTab
    \/ EditContent
    \/ DetectTimerFires
    \/ DetectionCompletes
    \/ requestFormatJson
    \/ PreviewCompletes
    \/ CancelPreview
    \/ applyFormatPreview
    \/ toggleDisplayFormatted
    \/ DisplayCompletes
    \/ RefreshCompletes
    \/ CloseTab
    \/ CloseTabAsks
    \/ PromptAccepted
    \/ PromptDeclined
    \/ closeAllTabs
    \/ restoreClosedTab
    \/ toggleTabPin
    \/ SetDiffViewMode
    \/ saveCurrentTab
    \/ saveAsCurrentTab
    \/ SaveDialogCancelled
    \/ SaveDialogChosen
    \/ WriteCompletes
    \/ CallFails
    \/ openFile
    \/ OpenDialogCancelled
    \/ OpenReadFails
    \/ OpenDialogChosen
    \/ OpenCompletes
    \/ runDiff
    \/ runDiffClipboard
    \/ runDiffClipboardFails
    \/ DiffCompletes

SpecShell == InitShell /\ [][NextShell]_vars

\* ------------------------------------------------- shell, editing and detection

\* the state after the first render, with MaxDetections calls allowed in flight
InitDetection ==
    /\ tabs = <<NewTab(1)>>
    /\ activeId = 1
    /\ tabIdCounter = 1
    /\ formatPreview = NoPreview
    /\ detectTimer = [armed |-> TRUE, tabId |-> 1, content |-> <<>>, extension |-> <<>>]
    /\ detectCalls = {}
    /\ formatCalls = {}
    /\ refreshCall = NoCall
    /\ commands = 0
    /\ recentlyClosed = <<>>
    /\ dialog = NoDialog
    /\ ioCalls = {}
    /\ reported = 0
    /\ inFlightLimit = MaxDetections
    /\ asks = <<>>
    /\ DiffIdle
    /\ SegIdle
    /\ DetIdle
    /\ FmtIdle
    /\ LoopIdle

\* new tab, tab selection, edits, and the detection they start
NextDetection ==
    \/ addTab
    \/ SelectTab
    \/ EditContent
    \/ DetectTimerFires
    \/ DetectionCompletes

SpecDetection == InitDetection /\ [][NextDetection]_vars

\* ------------------------------------------------------- shell with many tabs

\* the state after New was clicked until ManyTabs tabs are open
InitTabs ==
    /\ tabs = [k \in 1..ManyTabs |-> NewTab(k)]
    /\ activeId = ManyTabs
    /\ tabIdCounter = ManyTabs
    /\ formatPreview = NoPreview
    /\ detectTimer =
           [armed |-> TRUE, tabId |-> ManyTabs, content |-> <<>>, extension |-> <<>>]
    /\ detectCalls = {}
    /\ formatCalls = {}
    /\ refreshCall = NoCall
    /\ commands = 0
    /\ recentlyClosed = <<>>
    /\ dialog = NoDialog
    /\ ioCalls = {}
    /\ reported = 0
    /\ inFlightLimit = MaxInFlight
    /\ asks = <<>>
    /\ DiffIdle
    /\ SegIdle
    /\ DetIdle
    /\ FmtIdle
    /\ LoopIdle

\* close, close all and restore
NextTabs ==
    \/ CloseTab
    \/ closeAllTabs
    \/ restoreClosedTab

SpecTabs == InitTabs /\ [][NextTabs]_vars

\* ------------------------------------------------------- shell with a few tabs

\* the state after New was clicked until up to FewTabs tabs are open
InitFew ==
    \E n \in 1..FewTabs :
        /\ tabs = [k \in 1..n |-> NewTab(k)]
        /\ activeId = n
        /\ tabIdCounter = n
        /\ formatPreview = NoPreview
        /\ detectTimer =
               [armed |-> TRUE, tabId |-> n, content |-> <<>>, extension |-> <<>>]
        /\ detectCalls = {}
        /\ formatCalls = {}
        /\ refreshCall = NoCall
        /\ commands = 0
        /\ recentlyClosed = <<>>
        /\ dialog = NoDialog
        /\ ioCalls = {}
        /\ reported = 0
        /\ inFlightLimit = MaxInFlight
        /\ asks = <<>>
        /\ DiffIdle
        /\ SegIdle
        /\ DetIdle
        /\ FmtIdle
        /\ LoopIdle

SpecRestore == InitFew /\ [][NextTabs]_vars

\* ------------------------------------------- shell with prompts not held back

\* closeTabMaybeConfirm on a pinned tab where the prompt does not hold back
\* further commands: each call awaits its own ask(...), holding the tabs of
\* its render, and nothing in the handler refuses a call while another waits
CloseTabAsksAgain ==
    \E id \in 1..tabIdCounter :
        /\ UserCommand
        /\ HasTab(tabs, id)
        /\ TabOf(tabs, id).pinned
        /\ Len(asks) < MaxPrompts
        /\ asks' = Append(asks, [tabId |-> id, tabs |-> tabs])
        /\ UNCHANGED <<tabs, activeId, tabIdCounter, formatPreview, detectTimer, detectCalls,
                       formatCalls, refreshCall, recentlyClosed, dialog, ioCalls, reported>>
        /\ UNCHANGED Components

\* the awaited prompts but the k-th
AsksBut(k) == SubSeq(asks, 1, k - 1) \o SubSeq(asks, k + 1, Len(asks))

\* one of the awaited prompts is accepted: closeTab runs in its handler's
\* closure
AskAccepted ==
    \E k \in 1..Len(asks) :
        /\ asks' = AsksBut(k)
        /\ closeTab(asks[k].tabs, asks[k].tabId)
        /\ UNCHANGED <<tabIdCounter, formatPreview, detectCalls, formatCalls, commands,
                       dialog, ioCalls, reported>>
        /\ UNCHANGED Components

\* one of the awaited prompts is declined: if (!yes) return
AskDeclined ==
    \E k \in 1..Len(asks) :
        /\ asks' = AsksBut(k)
        /\ UNCHANGED <<tabs, activeId, tabIdCounter, formatPreview, detectTimer, detectCalls,
                       formatCalls, refreshCall, commands, recentlyClosed, dialog, ioCalls,
                       reported>>
        /\ UNCHANGED Components

\* add, pin, close of a pinned tab, restore
NextPrompts ==
    \/ addTab
    \/ toggleTabPin
    \/ CloseTabAsksAgain
    \/ AskAccepted
    \/ AskDeclined
    \/ restoreClosedTab

SpecPrompts == InitShell /\ [][NextPrompts]_vars

\* ------------------------------------------------------- diff: properties

\* the body of a unified diff: its lines after the two header lines
UnifiedBody(text) ==
    LET ls == Split(text, NL) IN SubSeq(ls, 3, Len(ls))

CountPrefix(ls, c) == Cardinality({k \in 1..Len(ls) : StartsWith(ls[k], c)})

RECURSIVE SumOld(_)
SumOld(blocks) ==
    IF Len(blocks) = 0 THEN 0
    ELSE (IF blocks[1].type = "changed" THEN Len(blocks[1].old_lines) ELSE 0)
         + SumOld(Tail(blocks))

RECURSIVE SumNew(_)
SumNew(blocks) ==
    IF Len(blocks) = 0 THEN 0
    ELSE (IF blocks[1].type = "changed" THEN Len(blocks[1].new_lines) ELSE 0)
         + SumNew(Tail(blocks))

\* length of a longest common subsequence of two line arrays
RECURSIVE LCS(_, _)
LCS(a, b) ==
    IF Len(a) = 0 \/ Len(b) = 0 THEN 0
    ELSE IF a[1] = b[1] THEN 1 + LCS(Tail(a), Tail(b))
    ELSE LET x == LCS(Tail(a), b)
             y == LCS(a, Tail(b))
         IN IF x >= y THEN x ELSE y

BothDiffsReturned == unified.called /\ structured.called

\* C1: the unified diff has as many '+' body lines as the structured diff has
\* new_lines, and as many '-' body lines as it has old_lines, for the same inputs.
C1_UnifiedMatchesStructured ==
    BothDiffsReturned =>
        LET body == UnifiedBody(unified.value)
            blocks == structured.value.blocks
        IN /\ CountPrefix(body, "+") = SumNew(blocks)
           /\ CountPrefix(body, "-") = SumOld(blocks)

\* C2: diffing a string against itself gives exactly one block, an Unchanged
\* block holding all lines of the string (one empty line for the empty string).
C2_DiffIdentity ==
    (structured.called /\ left = right) =>
        LET ls == Split(left, NL)
        IN /\ Len(structured.value.blocks) = 1
           /\ structured.value.blocks[1].type = "unchanged"
           /\ structured.value.blocks[1].count = Len(ls)
           /\ structured.value.blocks[1].lines = ls

\* C2 witness: a string of several lines has been diffed against itself
C2_Witness ==
    /\ structured.called
    /\ left = right
    /\ Len(Split(left, NL)) >= 2
    /\ \E k \in 1..Len(left) : left[k] # NL

\* C3: (a, b, c) against (a, x, c) gives Unchanged [a], Changed [b] -> [x],
\* Unchanged [c], in this order.
C3_ReplacedLineScenario ==
    (structured.called /\ left = ScenarioLeft /\ right = ScenarioRight) =>
        structured.value.blocks =
            << UnchangedBlock(<< <<"a">> >>),
               ChangedBlock(<< <<"b">> >>, << <<"x">> >>),
               UnchangedBlock(<< <<"c">> >>) >>

\* the blocks bwd are the blocks fwd with old_lines and new_lines exchanged
SwappedBlocks(fwd, bwd) ==
    /\ Len(bwd) = Len(fwd)
    /\ \A k \in 1..Len(fwd) :
          IF fwd[k].type = "unchanged"
          THEN bwd[k] = fwd[k]
          ELSE /\ bwd[k].type = "changed"
               /\ bwd[k].old_lines = fwd[k].new_lines
               /\ bwd[k].new_lines = fwd[k].old_lines

\* C4: the diff of (right, left) is the diff of (left, right) with old_lines and
\* new_lines exchanged in every Changed block, the Unchanged blocks kept and the
\* two labels exchanged.
C4_DiffSymmetry ==
    structured.called =>
        LET fwd == structured.value
            bwd == webComputeDiffStructured(right, left)
        IN /\ SwappedBlocks(fwd.blocks, bwd.blocks)
           /\ bwd.left_label = fwd.right_label
           /\ bwd.right_label = fwd.left_label

\* C5: the unified text is the two header lines, then body lines prefixed with
\* ' ', '-' or '+'; inside a changed run no '-' line follows a '+' line; the
\* scenario (a, b, c) against (a, x, c) gives ' a', '-b', '+x', ' c'.
C5_UnifiedFormat ==
    unified.called =>
        LET ls == Split(unified.value, NL)
            body == UnifiedBody(unified.value)
        IN /\ Len(ls) >= 2
           /\ ls[1] = HeaderLeft
           /\ ls[2] = HeaderRight
           /\ \A k \in 1..Len(body) : Len(body[k]) > 0 /\ body[k][1] \in {" ", "-", "+"}
           /\ \A k \in 1..(Len(body) - 1) :
                 ~(StartsWith(body[k], "+") /\ StartsWith(body[k + 1], "-"))
           /\ (left = ScenarioLeft /\ right = ScenarioRight) =>
                 body = << <<" ", "a">>, <<"-", "b">>, <<"+", "x">>, <<" ", "c">> >>

\* C6: both outputs hold |left| + |right| - 2 * LCS(left, right) changed lines.
C6_MinimalEditScript ==
    LET l == Split(left, NL)
        r == Split(right, NL)
        minimal == Len(l) + Len(r) - 2 * LCS(l, r)
    IN /\ structured.called =>
             SumOld(structured.value.blocks) + SumNew(structured.value.blocks) = minimal
       /\ unified.called =>
             CountPrefix(UnifiedBody(unified.value), "+")
                 + CountPrefix(UnifiedBody(unified.value), "-") = minimal

\* -------------------------------------------------- segmenter: properties

IsBlank(line) == Trim(line) = <<>>

\* C7: every segment lies inside the buffer, segments ascend without overlap, and
\* two line-contiguous neighbours never have the same kind.
C7_SegmentsOrdered ==
    segments.called =>
        LET segs == segments.value
            n == Len(Split(content, NL))
        IN /\ \A k \in 1..Len(segs) :
                 /\ 1 <= segs[k].start_line
                 /\ segs[k].start_line <= segs[k].end_line
                 /\ segs[k].end_line <= n
           /\ \A k \in 1..(Len(segs) - 1) :
                 /\ segs[k + 1].start_line > segs[k].end_line
                 /\ segs[k + 1].start_line = segs[k].end_line + 1
                       => segs[k + 1].kind # segs[k].kind

\* C7 witness: two line-contiguous segments, the first longer than one line
C7_Witness ==
    /\ segments.called
    /\ Len(segments.value) >= 2
    /\ segments.value[1].end_line > segments.value[1].start_line
    /\ segments.value[2].start_line = segments.value[1].end_line + 1

\* C8: every non-blank line lies in exactly one segment.
C8_NonBlankCoveredOnce ==
    segments.called =>
        LET segs == segments.value
            lines == Split(content, NL)
        IN \A n \in 1..Len(lines) :
              ~IsBlank(lines[n]) =>
                  Cardinality({k \in 1..Len(segs) :
                      segs[k].start_line <= n /\ n <= segs[k].end_line}) = 1

\* C8 witness: non-blank lines on both sides of a blank line have been segmented
C8_Witness ==
    /\ segments.called
    /\ LET lines == Split(content, NL)
       IN \E a, b, c \in 1..Len(lines) :
             /\ a < b /\ b < c
             /\ ~IsBlank(lines[a]) /\ IsBlank(lines[b]) /\ ~IsBlank(lines[c])

\* C9: the six-line scenario gives lines 1-3 json and lines 5-6 csv.
C9_SegmentScenario ==
    (segments.called /\ content = ScenarioContent /\ extension = <<>>) =>
        segments.value = <<Segment(1, 3, KindJson), Segment(5, 6, KindCsv)>>

KnownHints ==
    {KindJson, KindCsv, <<"x", "m", "l">>, <<"h", "t", "m", "l">>, KindYaml, ExtYml,
     ExtEnv, KindProperties}

\* C10: a buffer without a non-blank line gives one segment over the whole
\* buffer, of the hinted kind for a known hint and of kind text without a hint.
C10_BlankBufferSegment ==
    LET lines == Split(content, NL)
    IN (segments.called /\ \A n \in 1..Len(lines) : IsBlank(lines[n])) =>
          /\ Len(segments.value) = 1
          /\ segments.value[1].start_line = 1
          /\ segments.value[1].end_line = Len(lines)
          /\ extension \in KnownHints => segments.value[1].kind = ExtensionKind(extension)
          /\ extension = <<>> => segments.value[1].kind = KindText

\* --------------------------------------------------- detector: properties

KindVocabulary ==
    {KindJson, KindCsv, ExtXml, ExtHtml, KindYaml, KindProperties, KindText}

\* the extension table of the claims, on lower-cased hints
HintTable(h) ==
    CASE h = KindJson -> KindJson
      [] h = KindCsv -> KindCsv
      [] h = ExtXml -> ExtXml
      [] h = ExtHtml -> ExtHtml
      [] h = KindYaml -> KindYaml
      [] h = ExtYml -> KindYaml
      [] h = ExtEnv -> KindProperties
      [] h = KindProperties -> KindProperties

HintIsKnown == ToLowerCase(extension) \in KnownHints

C12_HintDecides ==
    (detected.called /\ HintIsKnown) =>
        detected.value = Detection(HintTable(ToLowerCase(extension)), 95)

\* C12 witness: an upper-case hint has overruled content that sniffs as csv
C12_Witness ==
    /\ detected.called
    /\ extension = ExtJsonUpper
    /\ Includes(Trim(content), NL)
    /\ StartsWith(content, ",")

\* C13: without a known hint, content whose trimmed text starts with '{' or '['
\* and holds a double quote is json at confidence 0.85, also when its first line
\* holds a comma and it has several lines.
C13_JsonBeforeCsv ==
    (/\ detected.called
     /\ ~HintIsKnown
     /\ StartsWith(Trim(content), "{") \/ StartsWith(Trim(content), "[")
     /\ Includes(Trim(content), "\""))
        => detected.value = Detection(KindJson, 85)

\* C13 witness: json-looking content of several lines with a comma on its first
\* line has been classified
C13_Witness ==
    /\ detected.called
    /\ ~HintIsKnown
    /\ StartsWith(Trim(content), "[")
    /\ Includes(Trim(content), "\"")
    /\ Includes(Trim(content), NL)
    /\ Includes(Split(Trim(content), NL)[1], ",")

\* -------------------------------------------------- formatter: properties

FmtLines == Split(content, NL)

\* the segment names lines of the buffer only
InRange(seg) == 1 <= seg.start_line /\ seg.end_line <= Len(FmtLines)

\* the text of the buffer lines a segment names, as far as they exist
SliceText(seg) ==
    Join(SubSeq(FmtLines, Max(1, seg.start_line), Min(Len(FmtLines), seg.end_line)), NL)

\* JSON is the only kind with a formatter
HasFormatter(kind) == kind = KindJson

Parses(text) == JsonParse(text).ok

Pretty(text) == Stringify(JsonParse(text).val, 0)

\* what a segment contributes: its formatted text, or its slice as it is
ExpectedPiece(seg) ==
    IF HasFormatter(seg.kind) /\ Parses(SliceText(seg)) THEN Pretty(SliceText(seg))
    ELSE SliceText(seg)

\* C14: format_content_segmented never fails, and with a segment list its
\* result is made of one piece per segment: the slice as it is when the kind
\* has no formatter or the slice does not parse, the formatted slice otherwise
C14_FormatNeverFails ==
    formatted.called =>
        /\ ~formatted.failed
        /\ fmtSegments # <<>> =>
               formatted.value =
                   Join([k \in 1..Len(fmtSegments) |-> ExpectedPiece(fmtSegments[k])], NL)

\* a formatted call whose list holds an unparsable JSON segment, a segment
\* without formatter and a JSON segment that formatting rewrites
C14_Witness ==
    /\ formatted.called
    /\ \A k \in 1..Len(fmtSegments) : InRange(fmtSegments[k])
    /\ \E k \in 1..Len(fmtSegments) :
           /\ HasFormatter(fmtSegments[k].kind)
           /\ SliceText(fmtSegments[k]) # <<>>
           /\ ~Parses(SliceText(fmtSegments[k]))
    /\ \E k \in 1..Len(fmtSegments) : ~HasFormatter(fmtSegments[k].kind)
    /\ \E k \in 1..Len(fmtSegments) :
           /\ HasFormatter(fmtSegments[k].kind)
           /\ Parses(SliceText(fmtSegments[k]))
           /\ Pretty(SliceText(fmtSegments[k])) # SliceText(fmtSegments[k])

\* every segment of the list lies in the buffer, has a formatter and parses
EverySegmentParses ==
    /\ fmtSegments # <<>>
    /\ \A k \in 1..Len(fmtSegments) :
           /\ InRange(fmtSegments[k])
           /\ HasFormatter(fmtSegments[k].kind)
           /\ Parses(SliceText(fmtSegments[k]))

\* C15: when every segment parses, the formatted result has as many lines as
\* the content
C15_LineCountPreserved ==
    (formatted.called /\ EverySegmentParses) =>
        Len(Split(formatted.value, NL)) = Len(FmtLines)

\* the kind detect_content gives for the buffer
DetectedKind == webDetectContent(content, extension).kind

\* C16: with an empty segment list, content that the formatter of its detected
\* kind cannot parse (or whose detected kind has no formatter) is returned
\* unchanged
C16_EmptyListUsesDetectedKind ==
    (formatted.called /\ fmtSegments = <<>>
        /\ ~(HasFormatter(DetectedKind) /\ Parses(content))) =>
        formatted.value = content

\* some segment of the list names a line the buffer does not have
SomeSegmentOutOfRange == \E k \in 1..Len(fmtSegments) : ~InRange(fmtSegments[k])

Ids(ts) == {ts[k].id : k \in 1..Len(ts)}

\* the tabs that are open before and after a step
Kept == Ids(tabs) \cap Ids(tabs')

\* the content and state of every tab
ContentAndState(ts) == [k \in 1..Len(ts) |-> <<ts[k].id, ts[k].content, ts[k].state>>]

\* the steps of the formatting views: preview request and its completion,
\* cancel, display toggle and its completion, refresh of the formatted view
FormatViewStep ==
    \/ requestFormatJson
    \/ PreviewCompletes
    \/ CancelPreview
    \/ toggleDisplayFormatted
    \/ DisplayCompletes
    \/ RefreshCompletes

\* C18: the formatting views change no tab's content or state; Apply changes
\* the tab of the preview only and gives it the previewed text; and a tab's
\* content changes in no step other than an edit or Apply
C18_FormattingIsView ==
    [][/\ FormatViewStep => ContentAndState(tabs') = ContentAndState(tabs)
       /\ applyFormatPreview =>
              \A k \in 1..Len(tabs) :
                  IF tabs[k].id = formatPreview.tabId
                  THEN tabs'[k].content = formatPreview.formatted
                  ELSE ContentAndState(tabs')[k] = ContentAndState(tabs)[k]
       /\ \A id \in Kept :
              TabOf(tabs', id).content # TabOf(tabs, id).content =>
                  (EditContent \/ applyFormatPreview)
      ]_vars

\* Apply has given a tab that is not the active one its formatted text, the
\* active tab is displayed formatted and is as it was created
C18_Witness ==
    /\ ~formatPreview.open
    /\ \E k \in 1..Len(tabs) :
           /\ tabs[k].id # activeId
           /\ tabs[k].content = <<"[", NL, " ", " ", "1", NL, "]">>
    /\ HasTab(tabs, activeId)
    /\ TabOf(tabs, activeId).displayAsFormatted
    /\ TabOf(tabs, activeId).content = <<>>
    /\ TabOf(tabs, activeId).state = StateEphemeral

\* C19: whenever detectedKind or segments are written to a tab, they are the
\* results for the content the tab holds at that moment
C19_NoStaleDetection ==
    [][\A id \in Kept :
           LET before == TabOf(tabs, id)
               after == TabOf(tabs', id)
           IN (after.detectedKind # before.detectedKind
                   \/ after.segments # before.segments) =>
                  /\ after.detectedKind =
                         Some(webDetectContent(after.content, ExtensionOf(after)).kind)
                  /\ after.segments =
                         Some(webDetectSegments(after.content, ExtensionOf(after)))
      ]_vars

\* ------------------------------------------------------ size cap: property

\* the documented cap on the size of a buffer (5 MB), scaled to the inputs of
\* the diff specification: its longest inputs exceed the cap
SizeCap == MaxDiffLen - 1

Oversized == Len(left) > SizeCap \/ Len(right) > SizeCap

\* C20: a diff operation fails with a too-large report when an input exceeds
\* the size cap, and succeeds when both inputs are within it
C20_OversizedRejected ==
    /\ unified.called => (unified.failed <=> Oversized)
    /\ structured.called => (structured.failed <=> Oversized)

\* ------------------------------------------- diff: blocks and termination

\* C21: every block of a structured diff is well formed: an unchanged block
\* counts its lines, a changed block has an old or a new line
C21_BlocksWellFormed ==
    structured.called =>
        \A k \in 1..Len(structured.value.blocks) :
            LET b == structured.value.blocks[k]
            IN IF b.type = "unchanged" THEN b.count = Len(b.lines)
               ELSE Len(b.old_lines) > 0 \/ Len(b.new_lines) > 0

\* a structured diff with an unchanged block of two lines and a changed block
\* that has old and new lines
C21_Witness ==
    /\ structured.called
    /\ \E k \in 1..Len(structured.value.blocks) :
           /\ structured.value.blocks[k].type = "unchanged"
           /\ structured.value.blocks[k].count = 2
    /\ \E k \in 1..Len(structured.value.blocks) :
           /\ structured.value.blocks[k].type = "changed"
           /\ Len(structured.value.blocks[k].old_lines) > 0
           /\ Len(structured.value.blocks[k].new_lines) > 0

\* the left and right indexes of a loop state have moved on, within the inputs
Advanced(st, next) ==
    /\ next.i >= st.i
    /\ next.j >= st.j
    /\ next.i + next.j > st.i + st.j
    /\ next.i <= Len(Split(left, NL))
    /\ next.j <= Len(Split(right, NL))

\* C23: in every state a loop reaches while it runs, the next iteration of a
\* diff loop moves the left or the right index forward and none backward, and
\* the next iteration of the segment scan moves to the next line; the indexes
\* stay within the inputs, so the loops end
C23_LoopsAdvance ==
    /\ (loopName = "diff" /\ DiffRunning) =>
           Advanced(loopSt, DiffStep(Split(left, NL), Split(right, NL), loopSt))
    /\ (loopName = "structured" /\ DiffRunning) =>
           Advanced(loopSt, StructStep(Split(left, NL), Split(right, NL), loopSt))
    /\ (loopName = "segments" /\ SegRunning) =>
           SegStep(Split(content, NL), loopSt).i = loopSt.i + 1
    /\ loopName = "segments" => loopSt.i <= Len(Split(content, NL))

\* the unified diff loop has ended after deleting, inserting and keeping a line
C23_Witness ==
    /\ loopName = "diff"
    /\ ~DiffRunning
    /\ \E k \in 1..Len(loopSt.lines) : loopSt.lines[k][1] = "-"
    /\ \E k \in 1..Len(loopSt.lines) : loopSt.lines[k] = <<"+", "b">>
    /\ \E k \in 1..Len(loopSt.lines) : loopSt.lines[k][1] = " "

\* C30: in a structured diff no two neighbouring blocks have the same type and
\* no unchanged block is empty
C30_BlocksCoalesced ==
    structured.called =>
        /\ \A k \in 1..(Len(structured.value.blocks) - 1) :
               structured.value.blocks[k].type # structured.value.blocks[k + 1].type
        /\ \A k \in 1..Len(structured.value.blocks) :
               structured.value.blocks[k].type = "unchanged" =>
                   Len(structured.value.blocks[k].lines) > 0

\* a structured diff of three blocks whose changed block holds two old lines
C30_Witness ==
    /\ structured.called
    /\ Len(structured.value.blocks) = 3
    /\ \E k \in 1..Len(structured.value.blocks) :
           /\ structured.value.blocks[k].type = "changed"
           /\ Len(structured.value.blocks[k].old_lines) = 2

\* ------------------------------------------------ shell: tabs and documents

\* the diff results the shell holds, in open tabs and in recently closed ones
DiffSnapshots(ts, closed) ==
    {<<ts[k].id, ts[k].diffData, ts[k].diffUnified>> :
         k \in {n \in 1..Len(ts) : ts[n].diffData.some}}
    \cup {<<closed[k].tab.id, closed[k].tab.diffData, closed[k].tab.diffUnified>> :
              k \in {n \in 1..Len(closed) : closed[n].tab.diffData.some}}

\* the ids of a set of diff results
SnapshotIds(snaps) == {s[1] : s \in snaps}

\* C22: a diff tab's blocks and unified text are those of the two contents
\* runDiff read, and no later step changes them, whether the tab is open or
\* recently closed; starting a diff changes no tab and its completion only
\* appends the diff tab
C22_DiffIsSnapshot ==
    [][/\ \A s \in DiffSnapshots(tabs', recentlyClosed') :
              s[1] \in SnapshotIds(DiffSnapshots(tabs, recentlyClosed)) =>
                  s \in DiffSnapshots(tabs, recentlyClosed)
       /\ (runDiff \/ runDiffClipboard) => tabs' = tabs
       /\ DiffCompletes =>
              /\ SubSeq(tabs', 1, Len(tabs)) = tabs
              /\ \E call \in ioCalls :
                     /\ tabs'[Len(tabs')].diffUnified =
                            Some(webComputeDiff(call.content, call.right))
                     /\ tabs'[Len(tabs')].diffData.value.blocks =
                            webComputeDiffStructured(call.content, call.right).blocks
      ]_vars

\* a diff of the empty first tab against the clipboard is open and pinned,
\* and the first tab has been edited since
C22_Witness ==
    /\ Len(tabs) = 2
    /\ tabs[1].content = <<"[", "1", "]">>
    /\ tabs[1].state = StateDirty
    /\ tabs[2].pinned
    /\ tabs[2].diffUnified = Some(webComputeDiff(<<>>, <<"1">>))
    /\ tabs[2].diffData.some
    /\ tabs[2].diffData.value.blocks = webComputeDiffStructured(<<>>, <<"1">>).blocks

\* the entries of a recently-closed list
Entries(closed) == {closed[k] : k \in 1..Len(closed)}

\* the content, label and state of a tab
Document(tab) == <<tab.id, tab.content, tab.label, tab.state>>

\* the documents of a tab list, in its order
Documents(ts) == [k \in 1..Len(ts) |-> Document(ts[k])]

\* C24: restore with an empty list changes nothing; otherwise it removes the
\* first entry of the list, inserts its tab at the recorded index clamped to
\* the number of tabs and activates it.  Every entry a step adds to the list
\* holds an open tab with its content, label and state of that moment, and
\* after closing one tab, restoring at once gives the tab list back
C24_RestoreReopens ==
    [][/\ restoreClosedTab =>
              IF Len(recentlyClosed) = 0
              THEN /\ tabs' = tabs
                   /\ activeId' = activeId
                   /\ recentlyClosed' = recentlyClosed
              ELSE LET entry == recentlyClosed[1]
                       i == IF entry.index < Len(tabs) THEN entry.index ELSE Len(tabs)
                   IN /\ tabs' = SubSeq(tabs, 1, i) \o <<entry.tab>>
                                     \o SubSeq(tabs, i + 1, Len(tabs))
                      /\ activeId' = entry.tab.id
                      /\ recentlyClosed' = Tail(recentlyClosed)
       /\ \A entry \in Entries(recentlyClosed') \ Entries(recentlyClosed) :
              /\ HasTab(tabs, entry.tab.id)
              /\ Document(entry.tab) = Document(TabOf(tabs, entry.tab.id))
       /\ (CloseTab \/ PromptAccepted) =>
              /\ Len(recentlyClosed') > 0
              /\ Documents(InsertTab(tabs', recentlyClosed'[1].tab,
                                     recentlyClosed'[1].index)) = Documents(tabs)
      ]_vars

\* the ids of a tab list, in its order
TabIds(ts) == [k \in 1..Len(ts) |-> ts[k].id]

\* tabs.filter((tab) => tab.id !== id) of the open tabs
AllBut(ts, id) == SelectSeq(ts, LAMBDA tab : tab.id # id)

\* the id at a 0-based index of a tab list, the last one past its end, 0 in an
\* empty list
IdAtOrLast(ts, index) ==
    IF Len(ts) = 0 THEN 0
    ELSE IF index < Len(ts) THEN ts[index + 1].id
    ELSE ts[Len(ts)].id

\* C25: a close removes the closed tab and no other tab; if it was the active
\* tab, the tab now at its index, or else the last tab, becomes active, and
\* with no tab left activeId is null; otherwise activeId stays
C25_ClosesExactlyOne ==
    [][(CloseTab \/ PromptAccepted) =>
           \E k \in 1..Len(tabs) :
               /\ TabIds(tabs') = TabIds(AllBut(tabs, tabs[k].id))
               /\ activeId' = IF activeId = tabs[k].id
                               THEN IdAtOrLast(tabs', k - 1)
                               ELSE activeId
      ]_vars

\* C26: addTab and runDiff append an ephemeral tab and openFile a clean one;
\* an edit or an applied format leaves the tab dirty; a tab that stays open
\* becomes clean only when write_file resolves, and never becomes ephemeral
C26_StateTransitions ==
    [][/\ (addTab \/ DiffCompletes) => tabs'[Len(tabs')].state = StateEphemeral
       /\ OpenCompletes => tabs'[Len(tabs')].state = StateClean
       /\ EditContent => TabOf(tabs', activeId).state = StateDirty
       /\ (applyFormatPreview /\ HasTab(tabs, formatPreview.tabId)) =>
              TabOf(tabs', formatPreview.tabId).state = StateDirty
       /\ \A id \in Kept :
              /\ (TabOf(tabs', id).state = StateClean /\ TabOf(tabs, id).state # StateClean)
                     => WriteCompletes
              /\ TabOf(tabs', id).state = StateEphemeral
                     => TabOf(tabs, id).state = StateEphemeral
      ]_vars

\* the tab list, the active tab and the recently-closed list stay as they are
TabsUntouched ==
    /\ tabs' = tabs
    /\ activeId' = activeId
    /\ recentlyClosed' = recentlyClosed

\* an awaited call of openFile rejects
OpenDetectionFails == CallFails /\ \E call \in ioCalls \ ioCalls' : call.op = "open"

\* name is what follows the last "/" or "\" of path
IsBasename(name, path) ==
    /\ \A k \in 1..Len(name) : name[k] \notin {"/", "\\"}
    /\ \E prefix \in {SubSeq(path, 1, n) : n \in 0..Len(path)} :
           /\ path = prefix \o name
           /\ prefix # <<>> => prefix[Len(prefix)] \in {"/", "\\"}

\* C27: opening the dialog, cancelling it, a failed read and a failed
\* detection leave the tab list, the active tab and the recently-closed list
\* as they are, and a failure shows one error dialog; a successful open
\* appends one clean tab with the file's content, labelled with the basename
\* of its path, and activates it
C27_OpenAddsOnSuccess ==
    [][/\ (openFile \/ OpenDialogCancelled \/ OpenDialogChosen) =>
              (TabsUntouched /\ reported' = reported)
       /\ (OpenReadFails \/ OpenDetectionFails) =>
              (TabsUntouched /\ reported' = reported + 1)
       /\ OpenCompletes =>
              \E call \in ioCalls \ ioCalls' :
                  LET opened == tabs'[Len(tabs')]
                  IN /\ Len(tabs') = Len(tabs) + 1
                     /\ SubSeq(tabs', 1, Len(tabs)) = tabs
                     /\ opened.id \notin Ids(tabs)
                     /\ opened.content = call.content
                     /\ opened.state = StateClean
                     /\ opened.path = Some(call.path)
                     /\ IsBasename(opened.label, call.path)
                     /\ activeId' = opened.id
                     /\ recentlyClosed' = recentlyClosed
      ]_vars

\* a file has been opened in a second tab, which is active, after an earlier
\* open failed
C27_Witness ==
    /\ Len(tabs) = 2
    /\ tabs[2].path.some
    /\ tabs[2].label = <<"a", ".", "J", "S", "O", "N">>
    /\ tabs[2].content = <<"1">>
    /\ tabs[2].state = StateClean
    /\ activeId = tabs[2].id
    /\ reported > 0

\* C29: a close of a pinned tab opens the prompt and removes nothing; a
\* declined prompt leaves the tab list, the active tab and the recently-closed
\* list as they are; an accepted prompt removes the tab; a close of an
\* unpinned tab removes it in the same step, without a prompt
C29_PinnedCloseAsks ==
    [][/\ CloseTabAsks =>
              /\ TabsUntouched
              /\ dialog'.kind = "ask"
              /\ HasTab(tabs, dialog'.tabId)
              /\ TabOf(tabs, dialog'.tabId).pinned
       /\ PromptDeclined => (TabsUntouched /\ dialog' = NoDialog)
       /\ PromptAccepted =>
              (dialog.tabId \notin Ids(tabs') /\ dialog' = NoDialog)
       /\ CloseTab =>
              /\ dialog = NoDialog
              /\ dialog' = NoDialog
              /\ \E id \in Ids(tabs) \ Ids(tabs') : ~TabOf(tabs, id).pinned
       /\ \A id \in Ids(tabs) \ Ids(tabs') :
              TabOf(tabs, id).pinned =>
                  (closeAllTabs \/ (PromptAccepted /\ id = dialog.tabId))
      ]_vars

\* an unpinned tab has been closed at once, and the close of the pinned tab
\* that is left waits at the prompt with the tab still open and active
C29_Witness ==
    /\ dialog.kind = "ask"
    /\ Len(tabs) = 1
    /\ tabs[1].pinned
    /\ tabs[1].id = dialog.tabId
    /\ activeId = tabs[1].id
    /\ Len(recentlyClosed) = 1
    /\ ~recentlyClosed[1].tab.pinned

\* C28: the recently-closed list never holds more than 10 entries.  A close
\* puts the closed tab first and keeps the entries before it, in their order,
\* as far as 10 allows; close all puts the open tabs first, the last tab
\* foremost, and keeps the earlier entries as far as 10 allows; restore adds
\* nothing
C28_RecentlyClosedCapped ==
    [][/\ Len(recentlyClosed') <= 10
       /\ CloseTab =>
              /\ Len(recentlyClosed') =
                     (IF Len(recentlyClosed) < 10 THEN Len(recentlyClosed) + 1 ELSE 10)
              /\ \E k \in 1..Len(tabs) :
                     /\ recentlyClosed'[1] = [tab |-> tabs[k], index |-> k - 1]
                     /\ tabs[k].id \notin Ids(tabs')
              /\ Tail(recentlyClosed') =
                     SubSeq(recentlyClosed, 1, Len(recentlyClosed') - 1)
       /\ closeAllTabs =>
              LET n == Len(tabs)
              IN /\ Len(recentlyClosed') =
                        (IF n + Len(recentlyClosed) < 10 THEN n + Len(recentlyClosed) ELSE 10)
                 /\ \A k \in 1..Len(recentlyClosed') :
                        recentlyClosed'[k] =
                            IF k <= n THEN [tab |-> tabs[n - k + 1], index |-> n - k]
                            ELSE recentlyClosed[k - n]
       /\ restoreClosedTab => Len(recentlyClosed') <= Len(recentlyClosed)
      ]_vars

\* all eleven tabs have been closed, one of them alone and first; the list
\* holds the ten closed last and the one closed first has been dropped
C28_Witness ==
    /\ Len(tabs) = 0
    /\ Len(recentlyClosed) = 10
    /\ Cardinality({recentlyClosed[k].tab.id : k \in 1..10}) = 10
    /\ 1 \notin {recentlyClosed[k].tab.id : k \in 1..10}
    /\ recentlyClosed[1].tab.id = ManyTabs

\* ------------------------------------------- segmenter: blank lines

\* C31: in a buffer with a non-blank line no segment holds a blank line
C31_BlankLineSeparates ==
    LET lines == Split(content, NL)
    IN (segments.called /\ \E n \in 1..Len(lines) : ~IsBlank(lines[n])) =>
          \A k \in 1..Len(segments.value) :
              \A n \in segments.value[k].start_line..segments.value[k].end_line :
                  ~IsBlank(lines[n])

\* two regions of one kind with a single blank line between them have been
\* returned as two segments
C31_Witness ==
    /\ segments.called
    /\ LET lines == Split(content, NL)
           segs == segments.value
       IN /\ Len(lines) = 3
          /\ ~IsBlank(lines[1])
          /\ IsBlank(lines[2])
          /\ ~IsBlank(lines[3])
          /\ LineKind(lines[1]) = LineKind(lines[3])
          /\ Len(segs) = 2
          /\ segs[1].kind = segs[2].kind
          /\ segs[1].end_line = 1
          /\ segs[2].start_line = 3

\* ------------------------------------------- detector: tabular rule

\* a comma on the first line of t and on a later line
CommaRepeated(t) ==
    LET lines == Split(t, NL)
    IN /\ Len(lines) >= 2
       /\ Includes(lines[1], ",")
       /\ \E n \in 2..Len(lines) : Includes(lines[n], ",")

\* C32: without a known hint and with content that fails the object-notation
\* rule, the result is csv at 0.7 if a comma is on the first line and on a
\* later line of the trimmed content, and text at 0.5 otherwise
C32_CsvNeedsRepeatedComma ==
    (/\ detected.called
     /\ ToLowerCase(extension) \notin KnownExtensions
     /\ ~LooksJson(Trim(content))) =>
        detected.value =
            IF CommaRepeated(Trim(content))
            THEN Detection(KindCsv, ConfidenceCsv)
            ELSE Detection(KindText, ConfidenceText)

\* ------------------------------------------- diff: prefix and reconstruction

\* the number of lines two line arrays have in common at their start
CommonPrefix(l, r) ==
    CHOOSE k \in 0..Len(l) :
        /\ k <= Len(r)
        /\ SubSeq(l, 1, k) = SubSeq(r, 1, k)
        /\ (k < Len(l) /\ k < Len(r)) => l[k + 1] # r[k + 1]

\* C33: when left and right begin with the same k >= 1 lines, the first block
\* of the structured diff is the unchanged block of exactly these k lines, and
\* the body of the unified diff begins with them as k context lines
C33_CommonPrefixFirst ==
    LET l == Split(left, NL)
        r == Split(right, NL)
        k == CommonPrefix(l, r)
    IN k >= 1 =>
          /\ structured.called =>
                /\ Len(structured.value.blocks) >= 1
                /\ structured.value.blocks[1] =
                       [type |-> "unchanged", count |-> k, lines |-> SubSeq(l, 1, k)]
          /\ unified.called =>
                LET body == UnifiedBody(unified.value)
                IN /\ Len(body) >= k
                   /\ \A n \in 1..k : body[n] = <<" ">> \o l[n]

\* both diffs have been computed for inputs that share their first two lines
\* and differ after them
C33_Witness ==
    /\ BothDiffsReturned
    /\ LET l == Split(left, NL)
           r == Split(right, NL)
       IN /\ CommonPrefix(l, r) = 2
          /\ Len(l) > 2
          /\ Len(structured.value.blocks) = 2

\* the left lines a block list stands for: unchanged lines and old_lines
RECURSIVE LeftOf(_)
LeftOf(blocks) ==
    IF Len(blocks) = 0 THEN <<>>
    ELSE (IF blocks[1].type = "unchanged" THEN blocks[1].lines ELSE blocks[1].old_lines)
         \o LeftOf(Tail(blocks))

\* the right lines a block list stands for: unchanged lines and new_lines
RECURSIVE RightOf(_)
RightOf(blocks) ==
    IF Len(blocks) = 0 THEN <<>>
    ELSE (IF blocks[1].type = "unchanged" THEN blocks[1].lines ELSE blocks[1].new_lines)
         \o RightOf(Tail(blocks))

\* the body lines that begin with one of the marks, without the mark
RECURSIVE Marked(_, _)
Marked(body, marks) ==
    IF Len(body) = 0 THEN <<>>
    ELSE (IF Len(body[1]) > 0 /\ body[1][1] \in marks THEN <<Tail(body[1])>> ELSE <<>>)
         \o Marked(Tail(body), marks)

\* C35: the blocks of the structured diff give back the lines of left and of
\* right, and so do the ' ' and '-' lines and the ' ' and '+' lines of the
\* unified diff
C35_DiffsReconstruct ==
    LET l == Split(left, NL)
        r == Split(right, NL)
    IN /\ structured.called =>
             /\ LeftOf(structured.value.blocks) = l
             /\ RightOf(structured.value.blocks) = r
       /\ unified.called =>
             /\ Marked(UnifiedBody(unified.value), {" ", "-"}) = l
             /\ Marked(UnifiedBody(unified.value), {" ", "+"}) = r

\* both diffs have been computed for inputs where lines were kept, removed
\* and added
C35_Witness ==
    /\ BothDiffsReturned
    /\ \E k \in 1..Len(structured.value.blocks) :
           /\ structured.value.blocks[k].type = "changed"
           /\ Len(structured.value.blocks[k].old_lines) > 0
           /\ Len(structured.value.blocks[k].new_lines) > 0
    /\ \E k \in 1..Len(structured.value.blocks) :
           structured.value.blocks[k].type = "unchanged"
    /\ CountPrefix(UnifiedBody(unified.value), "-") > 0
    /\ CountPrefix(UnifiedBody(unified.value), "+") > 0
    /\ CountPrefix(UnifiedBody(unified.value), " ") > 0

\* ------------------------------------------- shell: detection and tab list

\* no detection timer is pending and no detection call is in flight
DetectionSettled == ~detectTimer.armed /\ detectCalls = {}

\* C34: once every pending timer has fired and every detection call has
\* completed, the active tab, unless it is a diff tab, holds the detectedKind
\* and the segments of the content it has
C34_SegmentsRecomputed ==
    (/\ DetectionSettled
     /\ HasTab(tabs, activeId)
     /\ ~TabOf(tabs, activeId).diffData.some) =>
        LET tab == TabOf(tabs, activeId)
        IN /\ tab.detectedKind =
                  Some(webDetectContent(tab.content, ExtensionOf(tab)).kind)
           /\ tab.segments = Some(webDetectSegments(tab.content, ExtensionOf(tab)))

\* ------------------------------------------------ shell: closing and saving

\* the tab keeps its content, segments and state over the step
SameChanges(id) ==
    /\ HasTab(tabs', id)
    /\ TabOf(tabs', id).content = TabOf(tabs, id).content
    /\ TabOf(tabs', id).segments = TabOf(tabs, id).segments
    /\ TabOf(tabs', id).state = TabOf(tabs, id).state

\* C36: a step that completes the close of a tab, at once for a tab that is
\* not pinned or on accepting the prompt of a pinned one, leaves every other
\* tab that was open open, with the content, segments and state it had
C36_CloseKeepsOthers ==
    [][/\ PromptAccepted =>
              \A id \in Ids(tabs) \ {dialog.tabId} : SameChanges(id)
       /\ CloseTab =>
              \E x \in Ids(tabs) : \A id \in Ids(tabs) \ {x} : SameChanges(id)]_vars

\* C37: activeId is null exactly when no tab is open, and is otherwise the id
\* of an open tab
C37_ActiveIsOpen ==
    /\ activeId = 0 <=> Len(tabs) = 0
    /\ activeId # 0 => HasTab(tabs, activeId)

\* the calls that complete in the step
Completed == ioCalls \ ioCalls'

\* C38: when a read_file or write_file call resolves, the tab it was issued
\* for, if it is clean afterwards, holds the content that was read or
\* written; a call that rejects leaves every tab's state as it was
C38_CleanIsWritten ==
    [][/\ (WriteCompletes \/ OpenCompletes) =>
              \A call \in Completed :
                  (/\ HasTab(tabs', call.tabId)
                   /\ TabOf(tabs', call.tabId).state = StateClean) =>
                      TabOf(tabs', call.tabId).content = call.content
       /\ CallFails => ContentAndState(tabs') = ContentAndState(tabs)]_vars

\* ------------------------------------------------- shell: close all, restore

\* the tab list after n calls of restoreClosedTab with nothing in between
RECURSIVE RestoreTimes(_, _, _)
RestoreTimes(ts, closed, n) ==
    IF n = 0 \/ Len(closed) = 0 THEN ts
    ELSE RestoreTimes(InsertTab(ts, NextRestored(closed).tab, NextRestored(closed).index),
                      Tail(closed), n - 1)

\* C40: Close all on n <= 10 open tabs followed by n restores gives the tab
\* list back, tab for tab and position for position
C40_CloseAllRestoreAll ==
    [][(closeAllTabs /\ Len(tabs) <= MAX_RECENTLY_CLOSED) =>
           RestoreTimes(tabs', recentlyClosed', Len(tabs)) = tabs]_vars

\* ------------------------------------------------------- shell: unique ids

\* the ids of the open tabs followed by those of the recently-closed entries
OpenAndClosedIds ==
    TabIds(tabs) \o [k \in 1..Len(recentlyClosed) |-> recentlyClosed[k].tab.id]

\* C39: no id occurs twice among the open tabs and the recently-closed
\* entries taken together
C39_IdsUnique ==
    \A i, j \in 1..Len(OpenAndClosedIds) :
        OpenAndClosedIds[i] = OpenAndClosedIds[j] => i = j

====
